---- MODULE Spec2Model ----
(***************************************************************************)
(* Model of plugins/modules/logrotate.py: the LogrotateConfig reconciler   *)
(* (validation, discovery of the enabled/disabled variant, rendering of    *)
(* the stanza, backup, toggle, rewrite and deletion) over a small          *)
(* filesystem.                                                             *)
(*                                                                         *)
(* Python strings are modelled as sequences of one-character strings, so   *)
(* that strip, split, startswith and substring tests are computed as the   *)
(* code computes them.  None and "" are both the empty sequence for the    *)
(* string options, which the code only ever tests for truthiness.          *)
(***************************************************************************)
EXTENDS Integers, Sequences, FiniteSets, TLC

\* ------------------------------------------------------------------------
\* Bounds of the model
\* ------------------------------------------------------------------------

\* number of invocations of main() in one behaviour
MaxRuns == 2

\* number of whole seconds the clock may advance (backup timestamps)
MaxClock == 1

\* the number of times the same options are applied in a row
MaxReapply == 4

\* ------------------------------------------------------------------------
\* String literals of the source
\* ------------------------------------------------------------------------

\* the keywords _generate_config_content writes, and the rotation periods
kw ==
    [daily |-> <<"d", "a", "i", "l", "y">>,
     weekly |-> <<"w", "e", "e", "k", "l", "y">>,
     monthly |-> <<"m", "o", "n", "t", "h", "l", "y">>,
     yearly |-> <<"y", "e", "a", "r", "l", "y">>,
     rotate |-> <<"r", "o", "t", "a", "t", "e">>,
     compress |-> <<"c", "o", "m", "p", "r", "e", "s", "s">>,
     size |-> <<"s", "i", "z", "e">>,
     maxsize |-> <<"m", "a", "x", "s", "i", "z", "e">>,
     minsize |-> <<"m", "i", "n", "s", "i", "z", "e">>,
     start |-> <<"s", "t", "a", "r", "t">>,
     compresscmd |-> <<"c", "o", "m", "p", "r", "e", "s", "s", "c", "m", "d">>,
     uncompresscmd |-> <<"u", "n", "c", "o", "m", "p", "r", "e", "s", "s", "c", "m", "d">>,
     compressext |-> <<"c", "o", "m", "p", "r", "e", "s", "s", "e", "x", "t">>,
     compressoptions |-> <<"c", "o", "m", "p", "r", "e", "s", "s", "o", "p", "t", "i", "o", "n", "s">>,
     nocompress |-> <<"n", "o", "c", "o", "m", "p", "r", "e", "s", "s">>,
     delaycompress |-> <<"d", "e", "l", "a", "y", "c", "o", "m", "p", "r", "e", "s", "s">>,
     nodelaycompress |-> <<"n", "o", "d", "e", "l", "a", "y", "c", "o", "m", "p", "r", "e", "s", "s">>,
     shred |-> <<"s", "h", "r", "e", "d">>,
     shredcycles |-> <<"s", "h", "r", "e", "d", "c", "y", "c", "l", "e", "s">>,
     nomissingok |-> <<"n", "o", "m", "i", "s", "s", "i", "n", "g", "o", "k">>,
     missingok |-> <<"m", "i", "s", "s", "i", "n", "g", "o", "k">>,
     ifempty |-> <<"i", "f", "e", "m", "p", "t", "y">>,
     notifempty |-> <<"n", "o", "t", "i", "f", "e", "m", "p", "t", "y">>,
     create |-> <<"c", "r", "e", "a", "t", "e">>,
     copy |-> <<"c", "o", "p", "y">>,
     renamecopy |-> <<"r", "e", "n", "a", "m", "e", "c", "o", "p", "y">>,
     copytruncate |-> <<"c", "o", "p", "y", "t", "r", "u", "n", "c", "a", "t", "e">>,
     maxage |-> <<"m", "a", "x", "a", "g", "e">>,
     dateext |-> <<"d", "a", "t", "e", "e", "x", "t">>,
     dateyesterday |-> <<"d", "a", "t", "e", "y", "e", "s", "t", "e", "r", "d", "a", "y">>,
     dateformat |-> <<"d", "a", "t", "e", "f", "o", "r", "m", "a", "t">>,
     sharedscripts |-> <<"s", "h", "a", "r", "e", "d", "s", "c", "r", "i", "p", "t", "s">>,
     su |-> <<"s", "u">>,
     noolddir |-> <<"n", "o", "o", "l", "d", "d", "i", "r">>,
     olddir |-> <<"o", "l", "d", "d", "i", "r">>,
     createolddir |-> <<"c", "r", "e", "a", "t", "e", "o", "l", "d", "d", "i", "r">>,
     extension |-> <<"e", "x", "t", "e", "n", "s", "i", "o", "n">>,
     mail |-> <<"m", "a", "i", "l">>,
     mailfirst |-> <<"m", "a", "i", "l", "f", "i", "r", "s", "t">>,
     maillast |-> <<"m", "a", "i", "l", "l", "a", "s", "t">>,
     include |-> <<"i", "n", "c", "l", "u", "d", "e">>,
     tabooext |-> <<"t", "a", "b", "o", "o", "e", "x", "t">>,
     syslog |-> <<"s", "y", "s", "l", "o", "g">>,
     prerotate |-> <<"p", "r", "e", "r", "o", "t", "a", "t", "e">>,
     postrotate |-> <<"p", "o", "s", "t", "r", "o", "t", "a", "t", "e">>,
     firstaction |-> <<"f", "i", "r", "s", "t", "a", "c", "t", "i", "o", "n">>,
     lastaction |-> <<"l", "a", "s", "t", "a", "c", "t", "i", "o", "n">>,
     preremove |-> <<"p", "r", "e", "r", "e", "m", "o", "v", "e">>,
     endscript |-> <<"e", "n", "d", "s", "c", "r", "i", "p", "t">>]

\* the choices of compression_method
method ==
    [gzip |-> <<"g", "z", "i", "p">>,
     bzip2 |-> <<"b", "z", "i", "p", "2">>,
     xz |-> <<"x", "z">>,
     zstd |-> <<"z", "s", "t", "d">>,
     lzma |-> <<"l", "z", "m", "a">>,
     lz4 |-> <<"l", "z", "4">>]

\* the directory of the compression commands (lines 678-684)
usr_bin == <<"/", "u", "s", "r", "/", "b", "i", "n", "/">>

\* the decompress flag of zstd and lz4 (lines 680, 682)
dash_d == <<" ", "-", "d">>

\* the infix of the other methods' uncompress command (line 684)
s_un == <<"u", "n">>

\* self.disabled_suffix (line 508)
disabled_suffix == <<".", "d", "i", "s", "a", "b", "l", "e", "d">>

\* the ".backup" of the backup directory and of the backup file name
dot_backup == <<".", "b", "a", "c", "k", "u", "p">>

\* the default of config_dir (line 914)
DefaultConfigDir == <<"/", "e", "t", "c", "/", "l", "o", "g", "r", "o", "t", "a", "t", "e", ".", "d">>

\* the default of dateformat (line 946)
DefaultDateformat == <<"-", "%", "Y", "%", "m", "%", "d">>

\* the name of the entry the invocations of the model manage
ConfigName == <<"a", "p", "p">>

\* the home directory of the modelled host
HomeDir == <<"/", "r", "o", "o", "t">>

\* a log path given as paths
PathA == <<"/", "v", "a", "r", "/", "l", "o", "g", "/", "a", ".", "l", "o", "g">>

\* a script hook of one command
ScriptCmd == <<"/", "u", "s", "r", "/", "b", "i", "n", "/", "r", "e", "l", "o", "a", "d">>

\* ------------------------------------------------------------------------
\* Python string operations
\* ------------------------------------------------------------------------

\* characters removed by str.strip() and separating str.split()
Whitespace == {" ", "\t", "\n", "\r", "\f"}

Digits == <<"0", "1", "2", "3", "4", "5", "6", "7", "8", "9">>

RECURSIVE NatToStr(_)
NatToStr(n) ==
    IF n < 10 THEN <<Digits[n + 1]>>
    ELSE NatToStr(n \div 10) \o <<Digits[(n % 10) + 1]>>

\* str(n) of an int, as used by the f-strings
IntToStr(n) == IF n < 0 THEN <<"-">> \o NatToStr(0 - n) ELSE NatToStr(n)

\* s.startswith(p)
StartsWith(s, p) == Len(s) >= Len(p) /\ SubSeq(s, 1, Len(p)) = p

\* p in s
Contains(s, p) ==
    \E i \in 1..(Len(s) - Len(p) + 1) : SubSeq(s, i, i + Len(p) - 1) = p

RECURSIVE LStrip(_)
LStrip(s) ==
    IF s # <<>> /\ Head(s) \in Whitespace THEN LStrip(Tail(s)) ELSE s

RECURSIVE RStrip(_)
RStrip(s) ==
    IF s # <<>> /\ s[Len(s)] \in Whitespace
    THEN RStrip(SubSeq(s, 1, Len(s) - 1)) ELSE s

\* s.strip()
Strip(s) == RStrip(LStrip(s))

\* index of the first occurrence of character c in s, 0 when there is none
RECURSIVE FindChar(_, _, _)
FindChar(s, c, i) ==
    IF i > Len(s) THEN 0
    ELSE IF s[i] = c THEN i
    ELSE FindChar(s, c, i + 1)

\* s.split(c): the pieces between the occurrences of c, empty ones included
RECURSIVE SplitOn(_, _)
SplitOn(s, c) ==
    LET i == FindChar(s, c, 1)
    IN  IF i = 0 THEN <<s>>
        ELSE <<SubSeq(s, 1, i - 1)>> \o SplitOn(SubSeq(s, i + 1, Len(s)), c)

\* length of the leading run of non-whitespace characters of s
RECURSIVE WordLen(_, _)
WordLen(s, i) ==
    IF i > Len(s) \/ s[i] \in Whitespace THEN i - 1 ELSE WordLen(s, i + 1)

\* s.split(): the whitespace-separated words of s
RECURSIVE SplitWs(_)
SplitWs(s) ==
    LET t == LStrip(s)
    IN  IF t = <<>> THEN <<>>
        ELSE LET n == WordLen(t, 1)
             IN  <<SubSeq(t, 1, n)>> \o SplitWs(SubSeq(t, n + 1, Len(t)))

\* sep.join(parts)
RECURSIVE Join(_, _)
Join(parts, sep) ==
    IF parts = <<>> THEN <<>>
    ELSE IF Len(parts) = 1 THEN parts[1]
    ELSE parts[1] \o sep \o Join(Tail(parts), sep)

\* os.path.join(a, b) for a relative b
PathJoin(a, b) ==
    IF a # <<>> /\ a[Len(a)] = "/" THEN a \o b ELSE a \o <<"/">> \o b

\* ------------------------------------------------------------------------
\* Paths
\* ------------------------------------------------------------------------

\* name of the one environment variable of the modelled host
EnvHOME == <<"H", "O", "M", "E">>

\* os.environ of the modelled host
Environ == (EnvHOME :> HomeDir)

\* characters of a variable name in os.path.expandvars
NameChars ==
    {"A", "B", "C", "D", "E", "F", "G", "H", "I", "J", "K", "L", "M",
     "N", "O", "P", "Q", "R", "S", "T", "U", "V", "W", "X", "Y", "Z",
     "a", "b", "c", "d", "e", "f", "g", "h", "i", "j", "k", "l", "m",
     "n", "o", "p", "q", "r", "s", "t", "u", "v", "w", "x", "y", "z",
     "0", "1", "2", "3", "4", "5", "6", "7", "8", "9", "_"}

RECURSIVE NameLen(_, _)
NameLen(s, i) ==
    IF i > Len(s) \/ s[i] \notin NameChars THEN i - 1 ELSE NameLen(s, i + 1)

\* os.path.expandvars: $NAME is replaced when NAME is set, kept otherwise
\* (the ${NAME} form is not used by any input of the model)
RECURSIVE ExpandVars(_)
ExpandVars(s) ==
    LET i == FindChar(s, "$", 1)
    IN  IF i = 0 THEN s
        ELSE LET rest  == SubSeq(s, i + 1, Len(s))
                 n     == NameLen(rest, 1)
                 name  == SubSeq(rest, 1, n)
                 after == SubSeq(rest, n + 1, Len(rest))
             IN  IF n > 0 /\ name \in DOMAIN Environ
                 THEN SubSeq(s, 1, i - 1) \o Environ[name] \o ExpandVars(after)
                 ELSE SubSeq(s, 1, i) \o name \o ExpandVars(after)

\* os.path.expanduser: a leading "~" alone is the home directory; "~user"
\* names no user of the modelled host and is kept
ExpandUser(s) ==
    IF ~StartsWith(s, <<"~">>) THEN s
    ELSE LET j == FindChar(s, "/", 2)
             i == IF j = 0 THEN Len(s) + 1 ELSE j
         IN  IF i = 2 THEN HomeDir \o SubSeq(s, i, Len(s)) ELSE s

\* LogrotateConfig._expand_path
ExpandPath(path) == ExpandUser(ExpandVars(path))

\* ------------------------------------------------------------------------
\* Module parameters
\* ------------------------------------------------------------------------

\* a script hook that is not set (None)
NoScript == [isList |-> FALSE, text |-> <<>>, items |-> <<>>]

\* a script hook given as one string
ScriptStr(s) == [isList |-> FALSE, text |-> s, items |-> <<>>]

\* a script hook given as a list of commands
ScriptList(l) == [isList |-> TRUE, text |-> <<>>, items |-> l]

\* the defaults of main()'s argument_spec; None is <<>> for strings and
\* lists and 0 for maxage (the code only tests these for truthiness)
Defaults ==
    [name |-> ConfigName, state |-> "present",
     config_dir |-> DefaultConfigDir, paths |-> <<>>,
     rotation_period |-> kw.daily, rotate_count |-> 7,
     compress |-> TRUE, compressoptions |-> <<>>,
     compression_method |-> method.gzip,
     delaycompress |-> FALSE, nodelaycompress |-> FALSE,
     shred |-> FALSE, shredcycles |-> 1, missingok |-> TRUE,
     ifempty |-> FALSE, notifempty |-> TRUE, create |-> <<>>,
     copytruncate |-> FALSE, copy |-> FALSE, renamecopy |-> FALSE,
     size |-> <<>>, minsize |-> <<>>, maxsize |-> <<>>, maxage |-> 0,
     dateext |-> FALSE, dateyesterday |-> FALSE,
     dateformat |-> DefaultDateformat, sharedscripts |-> FALSE,
     prerotate |-> NoScript, postrotate |-> NoScript,
     firstaction |-> NoScript, lastaction |-> NoScript,
     preremove |-> NoScript, su |-> <<>>, olddir |-> <<>>,
     createolddir |-> FALSE, noolddir |-> FALSE, extension |-> <<>>,
     mail |-> <<>>, mailfirst |-> FALSE, maillast |-> TRUE,
     include |-> <<>>, tabooext |-> <<>>, enabled |-> TRUE,
     backup |-> FALSE, backup_dir |-> <<>>, start |-> 0,
     syslog |-> FALSE]

\* truthiness of a string or list parameter
Truthy(v) == v # <<>>

\* truthiness of a script hook
ScriptSet(sc) == IF sc.isList THEN sc.items # <<>> ELSE sc.text # <<>>

\* ------------------------------------------------------------------------
\* The state of one invocation
\* ------------------------------------------------------------------------

\* one entry of the log of filesystem and subprocess calls
Op(op, src, dst) == [op |-> op, src |-> src, dst |-> dst]

\* the filesystem without the file at path (os.remove, source of a move)
FileRemoved(fs, path) == [q \in (DOMAIN fs) \ {path} |-> fs[q]]

\* the filesystem with content at path (open(path, "w").write(content))
FileWritten(fs, path, content) ==
    [q \in (DOMAIN fs) \cup {path} |-> IF q = path THEN content ELSE fs[q]]

\* os.path.exists over the filesystem of the invocation
PathExists(c, path) == path \in DOMAIN c.files \/ path \in c.dirs

\* the invocation ended with how as its outcome
Ended(c, how) == [c EXCEPT !.outcome = how]

\* the invocation made the call o
Logged(c, o) == [c EXCEPT !.ops = Append(@, o)]

\* ------------------------------------------------------------------------
\* LogrotateConfig: construction, paths and discovery
\* ------------------------------------------------------------------------

\* os.makedirs(path, exist_ok=True)
MakeDirs(c, path) ==
    [c EXCEPT !.dirs = @ \cup {path},
              !.ops = Append(@, Op("makedirs", path, <<>>))]

\* the manager as __init__ leaves it before it looks at config_dir: the
\* filesystem, self.config_dir, self.result, and the log of calls, the
\* warnings and the outcome ("running" until the invocation ends)
NewManager(fs, ds, p) ==
    [files |-> fs, dirs |-> ds, config_dir |-> ExpandPath(p.config_dir),
     result |-> [changed |-> FALSE, config_file |-> <<>>,
                 config_content |-> <<>>, enabled_state |-> TRUE,
                 backup_file |-> <<>>],
     ops |-> <<>>, warnings |-> 0, outcome |-> "running"]

\* lines 512-513: config_dir is created when it does not exist
EnsureConfigDir(c) ==
    IF ~PathExists(c, c.config_dir) THEN MakeDirs(c, c.config_dir) ELSE c

\* LogrotateConfig.__init__
Construct(fs, ds, p) == EnsureConfigDir(NewManager(fs, ds, p))

\* os.path.join(self.config_dir, self.config_name + suffix)
VariantPath(c, p, suffix) == PathJoin(c.config_dir, p.name \o suffix)

\* _get_config_path as it would be without the disabled suffix
GetConfigPath_NoSuffix(c, p, enabled) == PathJoin(c.config_dir, p.name)

\* LogrotateConfig._get_config_path
GetConfigPath(c, p, enabled) ==
    IF ~enabled THEN PathJoin(c.config_dir, p.name) \o disabled_suffix
    ELSE PathJoin(c.config_dir, p.name)

\* the value a call of _read_existing_config returns (found = FALSE is
\* None) and result["enabled_state"] after the call
Existing(found, content, enabled_state) ==
    [found |-> found, content |-> content, enabled_state |-> enabled_state]

\* LogrotateConfig._read_existing_config
ReadExistingConfig(c, p, any_state) ==
    IF any_state
    THEN IF PathExists(c, VariantPath(c, p, <<>>))
         THEN Existing(TRUE, c.files[VariantPath(c, p, <<>>)], TRUE)
         ELSE IF PathExists(c, VariantPath(c, p, disabled_suffix))
         THEN Existing(TRUE, c.files[VariantPath(c, p, disabled_suffix)], FALSE)
         ELSE Existing(FALSE, <<>>, c.result.enabled_state)
    ELSE IF PathExists(c, GetConfigPath(c, p, p.enabled))
         THEN Existing(TRUE, c.files[GetConfigPath(c, p, p.enabled)],
                       c.result.enabled_state)
         ELSE Existing(FALSE, <<>>, c.result.enabled_state)

\* the manager after a call of _read_existing_config that returned existing
AfterRead(c, existing) ==
    [c EXCEPT !.result.enabled_state = existing.enabled_state]

\* ------------------------------------------------------------------------
\* LogrotateConfig._validate_parameters
\* ------------------------------------------------------------------------

IsDigit(ch) == \E i \in 1..10 : Digits[i] = ch

\* s without one final "\n", which "$" lets re.match ignore
BeforeFinalNewline(s) ==
    IF s # <<>> /\ s[Len(s)] = "\n" THEN SubSeq(s, 1, Len(s) - 1) ELSE s

\* s without one final unit letter k, M or G of either case
WithoutUnit(s) ==
    IF s # <<>> /\ s[Len(s)] \in {"k", "K", "m", "M", "g", "G"}
    THEN SubSeq(s, 1, Len(s) - 1) ELSE s

AllDigits(s) == s # <<>> /\ \A i \in 1..Len(s) : IsDigit(s[i])

\* re.match(r'^\d+[kMG]?$', s, re.I)
SizeFormatOk(s) == AllDigits(WithoutUnit(BeforeFinalNewline(s)))

CompressionMethods == {method.gzip, method.bzip2, method.xz, method.zstd, method.lzma, method.lz4}

\* the message of the first fail_json that the checks of lines 531-594
\* reach, "" when there is none
ValidationMessage(p, existing_content) ==
    IF ~Truthy(existing_content) /\ ~Truthy(p.paths)
        THEN "'paths' parameter is required when creating a new configuration"
    ELSE IF Truthy(p.size) /\ Truthy(p.maxsize)
        THEN "'size' and 'maxsize' parameters are mutually exclusive"
    ELSE IF p.copy /\ p.copytruncate
        THEN "'copy' and 'copytruncate' are mutually exclusive"
    ELSE IF p.copy /\ p.renamecopy
        THEN "'copy' and 'renamecopy' are mutually exclusive"
    ELSE IF p.ifempty /\ p.notifempty
        THEN "'ifempty' and 'notifempty' are mutually exclusive"
    ELSE IF p.delaycompress /\ p.nodelaycompress
        THEN "'delaycompress' and 'nodelaycompress' are mutually exclusive"
    ELSE IF Truthy(p.olddir) /\ p.noolddir
        THEN "'olddir' and 'noolddir' are mutually exclusive"
    ELSE IF p.compression_method \notin CompressionMethods
        THEN "Invalid compression method"
    ELSE IF Truthy(p.su) /\ Len(SplitWs(p.su)) # 2
        THEN "'su' parameter must be in format 'user group'"
    ELSE IF p.shredcycles < 1
        THEN "'shredcycles' must be a positive integer"
    ELSE IF p.start < 0
        THEN "'start' must be a non-negative integer"
    ELSE IF Truthy(p.size) /\ ~SizeFormatOk(p.size)
        THEN "'size' must be in format 'number[k|M|G]'"
    ELSE IF Truthy(p.minsize) /\ ~SizeFormatOk(p.minsize)
        THEN "'minsize' must be in format 'number[k|M|G]'"
    ELSE IF Truthy(p.maxsize) /\ ~SizeFormatOk(p.maxsize)
        THEN "'maxsize' must be in format 'number[k|M|G]'"
    ELSE ""

\* _validate_parameters as it would be with the check of paths alone
Validated_PathsOnly(c, p, existing) ==
    IF ~Truthy(existing.content) /\ ~Truthy(p.paths)
    THEN Ended(AfterRead(c, existing), "validation_error")
    ELSE AfterRead(c, existing)

\* the manager after _validate_parameters read existing: the invocation
\* ends with a validation error when a check fails
Validated(c, p, existing) ==
    IF ValidationMessage(p, existing.content) # ""
    THEN Ended(AfterRead(c, existing), "validation_error")
    ELSE AfterRead(c, existing)

\* LogrotateConfig._validate_parameters
ValidateParameters(c, p) ==
    IF p.state = "present"
    THEN Validated(c, p, ReadExistingConfig(c, p, TRUE))
    ELSE c

\* ------------------------------------------------------------------------
\* LogrotateConfig._generate_config_content
\* ------------------------------------------------------------------------

\* the substrings that disqualify a line of an existing file as a path
PathStopWords ==
    {<<" ">>, <<"\t">>, kw.daily, kw.weekly, kw.monthly, kw.yearly,
     kw.rotate, kw.compress}

\* the test applied to each stripped line of the existing content
IsPathLine(line) ==
    /\ line # <<>>
    /\ ~StartsWith(line, <<"#">>)
    /\ ~StartsWith(line, <<"{">>)
    /\ ~StartsWith(line, <<"}">>)
    /\ Contains(line, <<"/">>)
    /\ ~\E keyword \in PathStopWords : Contains(line, keyword)

RECURSIVE FilterPathLines(_)
FilterPathLines(lines) ==
    IF lines = <<>> THEN <<>>
    ELSE LET line == Strip(Head(lines))
         IN  (IF IsPathLine(line) THEN <<line>> ELSE <<>>)
             \o FilterPathLines(Tail(lines))

\* the paths recovered from an existing file when 'paths' is not given
RecoverPaths(existing_content) ==
    FilterPathLines(SplitOn(Strip(existing_content), "\n"))

\* f"    {text}"
Ind(text) == <<" ", " ", " ", " ">> \o text

\* f"        {text}"
Ind2(text) == <<" ", " ", " ", " ", " ", " ", " ", " ">> \o text

\* f"{keyword} {value}"
KeyVal(keyword, value) == keyword \o <<" ">> \o value

RECURSIVE MapExpandPath(_)
MapExpandPath(paths) ==
    IF paths = <<>> THEN <<>>
    ELSE <<ExpandPath(Head(paths))>> \o MapExpandPath(Tail(paths))

RECURSIVE MapInd2(_)
MapInd2(cmds) ==
    IF cmds = <<>> THEN <<>>
    ELSE <<Ind2(Head(cmds))>> \o MapInd2(Tail(cmds))

\* the lines of one script hook as they would be without the closing
\* endscript and the blank line
ScriptLines_NoEndscript(script_name, script_content) ==
    IF ~ScriptSet(script_content) THEN <<>>
    ELSE <<Ind(script_name)>>
         \o (IF script_content.isList
             THEN MapInd2(script_content.items)
             ELSE MapInd2(SplitOn(Strip(script_content.text), "\n")))

\* the lines of one script hook
ScriptLines(script_name, script_content) ==
    IF ~ScriptSet(script_content) THEN <<>>
    ELSE <<Ind(script_name)>>
         \o (IF script_content.isList
             THEN MapInd2(script_content.items)
             ELSE MapInd2(SplitOn(Strip(script_content.text), "\n")))
         \o <<Ind(kw.endscript), <<>>>>

\* the uncompresscmd line as it would be with the concatenated name for
\* every method
UncompressCmd_Concatenated(comp_method) ==
    Ind(KeyVal(kw.uncompresscmd,
               usr_bin \o comp_method \o s_un \o comp_method))

\* the uncompresscmd line for a method other than gzip
UncompressCmd(comp_method) ==
    IF comp_method = method.zstd
    THEN Ind(KeyVal(kw.uncompresscmd, usr_bin \o comp_method \o dash_d))
    ELSE IF comp_method = method.lz4
    THEN Ind(KeyVal(kw.uncompresscmd, usr_bin \o comp_method \o dash_d))
    ELSE Ind(KeyVal(kw.uncompresscmd,
                    usr_bin \o comp_method \o s_un \o comp_method))

\* the compression block
CompressLines(p) ==
    IF p.compress
    THEN (IF p.compression_method # method.gzip
          THEN <<Ind(KeyVal(kw.compresscmd, usr_bin \o p.compression_method)),
                 UncompressCmd(p.compression_method),
                 Ind(kw.compressext \o <<" ", ".">> \o p.compression_method)>>
          ELSE <<>>)
         \o <<Ind(kw.compress)>>
         \o (IF Truthy(p.compressoptions)
             THEN <<Ind(KeyVal(kw.compressoptions, p.compressoptions))>>
             ELSE <<>>)
    ELSE <<Ind(kw.nocompress)>>

\* the copy-mode keyword as it would be if copytruncate came first
CopyLines_TruncateFirst(p) ==
    IF p.copytruncate THEN <<Ind(kw.copytruncate)>>
    ELSE IF p.renamecopy THEN <<Ind(kw.renamecopy)>>
    ELSE IF p.copy THEN <<Ind(kw.copy)>>
    ELSE <<>>

\* the copy-mode keyword
CopyLines(p) ==
    IF p.copy THEN <<Ind(kw.copy)>>
    ELSE IF p.renamecopy THEN <<Ind(kw.renamecopy)>>
    ELSE IF p.copytruncate THEN <<Ind(kw.copytruncate)>>
    ELSE <<>>

\* lines 659-660 as they would be if the period were always written
CadenceLines_Always(p) == <<Ind(p.rotation_period)>>

\* lines 659-660: the rotation period
CadenceLines(p) ==
    IF ~Truthy(p.size) /\ ~Truthy(p.maxsize)
    THEN <<Ind(p.rotation_period)>> ELSE <<>>

\* the lines from the opening brace to the last line before the scripts
DirectiveLines(p) ==
    <<<<"{">>, <<>>>>
    \o CadenceLines(p)
    \o (IF Truthy(p.size) THEN <<Ind(KeyVal(kw.size, p.size))>>
        ELSE IF Truthy(p.maxsize) THEN <<Ind(KeyVal(kw.maxsize, p.maxsize))>>
        ELSE <<>>)
    \o (IF Truthy(p.minsize) THEN <<Ind(KeyVal(kw.minsize, p.minsize))>>
        ELSE <<>>)
    \o <<Ind(KeyVal(kw.rotate, IntToStr(p.rotate_count)))>>
    \o (IF p.start # 0 THEN <<Ind(KeyVal(kw.start, IntToStr(p.start)))>>
        ELSE <<>>)
    \o CompressLines(p)
    \o (IF p.delaycompress THEN <<Ind(kw.delaycompress)>>
        ELSE IF p.nodelaycompress THEN <<Ind(kw.nodelaycompress)>>
        ELSE <<>>)
    \o (IF p.shred
        THEN <<Ind(kw.shred)>>
             \o (IF p.shredcycles > 1
                 THEN <<Ind(KeyVal(kw.shredcycles, IntToStr(p.shredcycles)))>>
                 ELSE <<>>)
        ELSE <<>>)
    \o (IF ~p.missingok THEN <<Ind(kw.nomissingok)>>
        ELSE <<Ind(kw.missingok)>>)
    \o (IF p.ifempty THEN <<Ind(kw.ifempty)>>
        ELSE IF p.notifempty THEN <<Ind(kw.notifempty)>>
        ELSE <<>>)
    \o (IF Truthy(p.create) THEN <<Ind(KeyVal(kw.create, p.create))>>
        ELSE <<>>)
    \o CopyLines(p)
    \o (IF p.maxage # 0 THEN <<Ind(KeyVal(kw.maxage, IntToStr(p.maxage)))>>
        ELSE <<>>)
    \o (IF p.dateext
        THEN <<Ind(kw.dateext)>>
             \o (IF p.dateyesterday THEN <<Ind(kw.dateyesterday)>> ELSE <<>>)
             \o (IF Truthy(p.dateformat)
                 THEN <<Ind(KeyVal(kw.dateformat, p.dateformat))>> ELSE <<>>)
        ELSE <<>>)
    \o (IF p.sharedscripts THEN <<Ind(kw.sharedscripts)>> ELSE <<>>)
    \o (IF Truthy(p.su) THEN <<Ind(KeyVal(kw.su, p.su))>> ELSE <<>>)
    \o (IF p.noolddir THEN <<Ind(kw.noolddir)>>
        ELSE IF Truthy(p.olddir)
        THEN <<Ind(KeyVal(kw.olddir, ExpandPath(p.olddir)))>>
             \o (IF p.createolddir THEN <<Ind(kw.createolddir)>> ELSE <<>>)
        ELSE <<>>)
    \o (IF Truthy(p.extension)
        THEN <<Ind(KeyVal(kw.extension, p.extension))>> ELSE <<>>)
    \o (IF Truthy(p.mail)
        THEN <<Ind(KeyVal(kw.mail, p.mail))>>
             \o (IF p.mailfirst THEN <<Ind(kw.mailfirst)>>
                 ELSE IF p.maillast THEN <<Ind(kw.maillast)>>
                 ELSE <<>>)
        ELSE <<>>)
    \o (IF Truthy(p.include)
        THEN <<Ind(KeyVal(kw.include, ExpandPath(p.include)))>> ELSE <<>>)
    \o (IF Truthy(p.tabooext) /\ Strip(Join(p.tabooext, <<" ">>)) # <<>>
        THEN <<Ind(KeyVal(kw.tabooext, Join(p.tabooext, <<" ">>)))>>
        ELSE <<>>)
    \o (IF p.syslog THEN <<Ind(kw.syslog)>> ELSE <<>>)

\* the text as it would be with the script hooks ahead of the directives
Render_ScriptsFirst(p, paths) ==
    Join(MapExpandPath(paths)
         \o ScriptLines(kw.prerotate, p.prerotate)
         \o ScriptLines(kw.postrotate, p.postrotate)
         \o ScriptLines(kw.firstaction, p.firstaction)
         \o ScriptLines(kw.lastaction, p.lastaction)
         \o ScriptLines(kw.preremove, p.preremove)
         \o DirectiveLines(p)
         \o <<<<"}">>>>,
         <<"\n">>)

\* the text rendered for parameters p and the path list paths
Render(p, paths) ==
    Join(MapExpandPath(paths)
         \o DirectiveLines(p)
         \o ScriptLines(kw.prerotate, p.prerotate)
         \o ScriptLines(kw.postrotate, p.postrotate)
         \o ScriptLines(kw.firstaction, p.firstaction)
         \o ScriptLines(kw.lastaction, p.lastaction)
         \o ScriptLines(kw.preremove, p.preremove)
         \o <<<<"}">>>>,
         <<"\n">>)


\* the value _generate_config_content returns: failed is the fail_json of
\* line 646, paths is params["paths"] after the call
Generated(failed, paths, content) ==
    [failed |-> failed, paths |-> paths, content |-> content]

\* lines 648-791 for the path list paths
GenerateFor(p, paths) == Generated(FALSE, paths, Render(p, paths))

\* lines 631-646: the paths are recovered from the existing file (the
\* read leaves result["enabled_state"] as apply's own read set it)
GenerateFromExisting(p, existing) ==
    IF Truthy(existing.content)
    THEN GenerateFor(p, RecoverPaths(existing.content))
    ELSE Generated(TRUE, p.paths, <<>>)

\* LogrotateConfig._generate_config_content; a list is rendered as such
\* (the argument_spec never delivers a bare string)
GenerateConfigContent(c, p) ==
    IF ~Truthy(p.paths)
    THEN GenerateFromExisting(p, ReadExistingConfig(c, p, TRUE))
    ELSE GenerateFor(p, p.paths)

\* ------------------------------------------------------------------------
\* Filesystem calls that can fail, and LogrotateConfig._backup_config
\* ------------------------------------------------------------------------

\* AnsibleModule.atomic_move(src, dest): os.rename, fail_json when src is
\* missing
AtomicMove(c, src, dst) ==
    IF c.outcome # "running" THEN c
    ELSE IF src \notin DOMAIN c.files
    THEN Ended(Logged(c, Op("atomic_move_failed", src, dst)), "fail_json")
    ELSE [c EXCEPT !.files = FileRemoved(FileWritten(@, dst, c.files[src]), src),
                   !.ops = Append(@, Op("atomic_move", src, dst))]

\* os.remove(path) as it would be if it left the file in place
OsRemove_Keeps(c, path) ==
    IF c.outcome # "running" THEN c
    ELSE Logged(c, Op("remove", path, <<>>))

\* os.remove(path): FileNotFoundError, which nothing catches, when missing
OsRemove(c, path) ==
    IF c.outcome # "running" THEN c
    ELSE IF path \notin DOMAIN c.files
    THEN Ended(Logged(c, Op("remove_failed", path, <<>>)), "exception")
    ELSE [c EXCEPT !.files = FileRemoved(@, path),
                   !.ops = Append(@, Op("remove", path, <<>>))]

\* datetime.now().strftime("%Y%m%d_%H%M%S"): the clock's whole seconds
Timestamp(clock) == IntToStr(clock)

\* the directory _backup_config moves the file to
BackupDir(c, p) ==
    IF Truthy(p.backup_dir) THEN p.backup_dir
    ELSE PathJoin(c.config_dir, dot_backup)

\* the backup file of _backup_config
BackupFile(c, p, clock) ==
    PathJoin(BackupDir(c, p),
             p.name \o dot_backup \o <<".">> \o Timestamp(clock))

\* line 812: the backup file is noted in the result once the move is done
BackupNoted(c, backup_file) ==
    IF c.outcome # "running" THEN c
    ELSE [c EXCEPT !.result.backup_file = backup_file]

\* LogrotateConfig._backup_config
BackupConfig(c, p, config_path, clock) ==
    IF c.outcome # "running" THEN c
    ELSE IF ~PathExists(c, config_path) THEN c
    ELSE IF p.backup
    THEN BackupNoted(AtomicMove(MakeDirs(c, BackupDir(c, p)), config_path,
                                BackupFile(c, p, clock)),
                     BackupFile(c, p, clock))
    ELSE c

\* ------------------------------------------------------------------------
\* LogrotateConfig.apply
\* ------------------------------------------------------------------------

\* lines 829-832: the removal is reported
AbsentReported(c, config_path) ==
    IF c.outcome # "running" THEN c
    ELSE [c EXCEPT !.result.changed = TRUE,
                   !.result.config_file = config_path,
                   !.outcome = "ok"]

\* lines 825-831 for a variant that exists
RemoveVariant(c, p, check, clock, config_path) ==
    AbsentReported(IF check THEN c
                   ELSE OsRemove(BackupConfig(c, p, config_path, clock),
                                 config_path),
                   config_path)

\* apply, state == "absent": the first variant found is backed up and
\* removed, and the loop ends there
ApplyAbsent(c, p, check, clock) ==
    IF PathExists(c, VariantPath(c, p, <<>>))
    THEN RemoveVariant(c, p, check, clock, VariantPath(c, p, <<>>))
    ELSE IF PathExists(c, VariantPath(c, p, disabled_suffix))
    THEN RemoveVariant(c, p, check, clock, VariantPath(c, p, disabled_suffix))
    ELSE Ended(c, "ok")

\* line 848 as it would be if the change were not reported
MarkChanged_Not(c) == c

\* line 848
MarkChanged(c) == [c EXCEPT !.result.changed = TRUE]

\* the result of the toggle as it would be with an empty content in place
\* of the existing one when new_path cannot be opened
ToggleReported_NoFallback(c, p, new_path, existing_content) ==
    IF c.outcome # "running" THEN c
    ELSE [c EXCEPT !.result.config_file = new_path,
                   !.result.enabled_state = p.enabled,
                   !.result.config_content =
                       IF new_path \in DOMAIN c.files
                       THEN c.files[new_path] ELSE <<>>,
                   !.outcome = "ok"]

\* lines 853-862: the result of the toggle; the content is read back from
\* new_path, or is the existing content when that cannot be opened
ToggleReported(c, p, new_path, existing_content) ==
    IF c.outcome # "running" THEN c
    ELSE [c EXCEPT !.result.config_file = new_path,
                   !.result.enabled_state = p.enabled,
                   !.result.config_content =
                       IF new_path \in DOMAIN c.files
                       THEN c.files[new_path] ELSE existing_content,
                   !.outcome = "ok"]

\* lines 848-862: the toggle-only branch, taken when old_path exists and
\* new_path does not
ApplyToggle(c, p, check, clock, old_path, new_path, existing_content) ==
    ToggleReported(IF check THEN MarkChanged(c)
                   ELSE AtomicMove(BackupConfig(MarkChanged(c), p, old_path,
                                                clock),
                                   old_path, new_path),
                   p, new_path, existing_content)

\* one turn of the loop of lines 881-885, for the variant at old_path
RemoveOld(c, p, clock, old_path) ==
    IF c.outcome # "running" THEN c
    ELSE IF ~PathExists(c, old_path) THEN c
    ELSE OsRemove(BackupConfig(c, p, old_path, clock), old_path)

\* lines 887-894: the write of the new content and the chmod; env tells
\* whether the open fails
WriteConfig(c, new_content, env) ==
    IF c.outcome # "running" THEN c
    ELSE IF env = "write_fails"
    THEN Ended(Logged(c, Op("write_failed", c.result.config_file, <<>>)),
               "fail_json")
    ELSE [c EXCEPT !.files = FileWritten(@, c.result.config_file, new_content),
                   !.ops = @ \o <<Op("write", c.result.config_file, <<>>),
                                  Op("chmod", c.result.config_file, <<>>)>>]

\* lines 896-902 as they would be if a failed test were fatal
TestConfig_Fatal(c, env) ==
    IF c.outcome # "running" THEN c
    ELSE IF env = "test_fails"
    THEN Ended(Logged(c, Op("run_command", c.result.config_file, <<>>)),
               "fail_json")
    ELSE Logged(c, Op("run_command", c.result.config_file, <<>>))

\* lines 896-902: the advisory run of "logrotate -d"; env tells whether it
\* exits non-zero
TestConfig(c, env) ==
    IF c.outcome # "running" THEN c
    ELSE [c EXCEPT !.ops = Append(@, Op("run_command", c.result.config_file, <<>>)),
                   !.warnings = IF env = "test_fails" THEN @ + 1 ELSE @]

\* lines 880-902 as they would be if the new content were written without
\* the removal of the variants
Rewrite_KeepsOld(c, p, env, clock, new_content) ==
    TestConfig(WriteConfig(c, new_content, env), env)

\* lines 880-902 as they would be if the variants were removed only once
\* the file could be opened for writing
Rewrite_WriteFirst(c, p, env, clock, new_content) ==
    IF env = "write_fails" THEN WriteConfig(c, new_content, env)
    ELSE TestConfig(
             WriteConfig(
                 RemoveOld(RemoveOld(c, p, clock, VariantPath(c, p, <<>>)),
                           p, clock, VariantPath(c, p, disabled_suffix)),
                 new_content, env),
             env)

\* lines 880-902: both variants are removed, the content is written and
\* tested
Rewrite(c, p, env, clock, new_content) ==
    TestConfig(
        WriteConfig(
            RemoveOld(RemoveOld(c, p, clock, VariantPath(c, p, <<>>)),
                      p, clock, VariantPath(c, p, disabled_suffix)),
            new_content, env),
        env)

\* lines 868-875 as they would be if every run needed an update
NeedsUpdate_Always(p, existing, new_content, current_enabled) == TRUE

\* lines 868-875
NeedsUpdate(p, existing, new_content, current_enabled) ==
    \/ ~existing.found
    \/ existing.content # new_content
    \/ p.enabled # current_enabled

\* lines 865-866
Rendered(c, p, new_content) ==
    [c EXCEPT !.result.config_content = new_content,
              !.result.config_file = GetConfigPath(c, p, p.enabled)]

\* lines 904-905
Returned(c, p) ==
    IF c.outcome # "running" THEN c
    ELSE [c EXCEPT !.result.enabled_state = p.enabled, !.outcome = "ok"]

\* lines 877-905 as they would be without the test of check_mode
Update_IgnoresCheck(c, p, check, env, clock, needs_update) ==
    Returned(IF ~needs_update THEN c
             ELSE Rewrite(MarkChanged(c), p, env, clock,
                          c.result.config_content),
             p)

\* lines 877-905 for the manager c that holds the rendered content
Update(c, p, check, env, clock, needs_update) ==
    Returned(IF ~needs_update THEN c
             ELSE IF check THEN MarkChanged(c)
             ELSE Rewrite(MarkChanged(c), p, env, clock,
                          c.result.config_content),
             p)

\* lines 865-905 for the value gen of _generate_config_content
ApplyGenerated(c, p, check, env, clock, existing, gen) ==
    IF gen.failed THEN Ended(c, "fail_json")
    ELSE Update(Rendered(c, p, gen.content), p, check, env, clock,
                NeedsUpdate(p, existing, gen.content, existing.enabled_state))

\* lines 837-841
OnlyChangingEnabled(p, existing, current_enabled) ==
    /\ existing.found
    /\ ~Truthy(p.paths)
    /\ p.enabled # current_enabled

\* lines 834-905: apply for state == "present", existing being what line
\* 834 read
ApplyPresent(c, p, check, env, clock, existing) ==
    IF /\ OnlyChangingEnabled(p, existing, existing.enabled_state)
       /\ PathExists(c, GetConfigPath(c, p, ~p.enabled))
       /\ ~PathExists(c, GetConfigPath(c, p, p.enabled))
    THEN ApplyToggle(AfterRead(c, existing), p, check, clock,
                     GetConfigPath(c, p, ~p.enabled),
                     GetConfigPath(c, p, p.enabled), existing.content)
    ELSE ApplyGenerated(AfterRead(c, existing), p, check, env, clock,
                        existing, GenerateConfigContent(c, p))

\* lines 820-905: apply once the parameters were validated
ApplyValidated(c, p, check, env, clock) ==
    IF c.outcome # "running" THEN c
    ELSE IF p.state = "absent" THEN ApplyAbsent(c, p, check, clock)
    ELSE ApplyPresent(c, p, check, env, clock, ReadExistingConfig(c, p, TRUE))

\* LogrotateConfig.apply
Apply(c, p, check, env, clock) ==
    ApplyValidated(ValidateParameters(c, p), p, check, env, clock)

\* main() once logrotate was found: construct the manager and apply
Main(fs, ds, p, check, env, clock) ==
    Apply(Construct(fs, ds, p), p, check, env, clock)

\* ------------------------------------------------------------------------
\* The invocations of the model
\* ------------------------------------------------------------------------

\* the option sets main() is invoked with
OptionSeq ==
    << \* 1: enabled entry for PathA, all defaults
       [Defaults EXCEPT !.paths = <<PathA>>],
       \* 2: the same entry, disabled
       [Defaults EXCEPT !.paths = <<PathA>>, !.enabled = FALSE],
       \* 3: enabled entry for PathA with another rotate count
       [Defaults EXCEPT !.paths = <<PathA>>, !.rotate_count = 14],
       \* 4: no paths, enabled
       Defaults,
       \* 5: no paths, disabled
       [Defaults EXCEPT !.enabled = FALSE],
       \* 6: no paths, a postrotate script of one command
       [Defaults EXCEPT !.postrotate = ScriptStr(ScriptCmd)],
       \* 7: size together with maxsize
       [Defaults EXCEPT !.paths = <<PathA>>, !.size = <<"1", "M">>,
                        !.maxsize = <<"2", "M">>],
       \* 8: another rotate count, with backup
       [Defaults EXCEPT !.paths = <<PathA>>, !.rotate_count = 30,
                        !.backup = TRUE],
       \* 9: no paths, disabled, with backup
       [Defaults EXCEPT !.enabled = FALSE, !.backup = TRUE],
       \* 10: remove the entry
       [Defaults EXCEPT !.state = "absent"],
       \* 11: remove the entry, with backup
       [Defaults EXCEPT !.state = "absent", !.backup = TRUE],
       \* 12: remove the entry, with backup to a directory of its own
       [Defaults EXCEPT !.state = "absent", !.backup = TRUE,
                        !.backup_dir = <<"/", "v", "a", "r", "/", "b", "a",
                                         "k">>] >>

\* what the environment does to the invocation: nothing, the open for
\* writing fails, or "logrotate -d" exits non-zero
Envs == {"ok", "write_fails", "test_fails"}

\* the content apply writes for option set 1
Canonical == Render(OptionSeq[1], <<PathA>>)

\* a hand-written file
HandWritten ==
    <<"#", " ", "a", "p", "p", "\n", "/", "v", "a", "r", "/", "l",
      "o", "g", "/", "h", ".", "l", "o", "g", "\n", "{", "\n", " ",
      " ", " ", " ", "w", "e", "e", "k", "l", "y", "\n", " ", " ",
      " ", " ", "r", "o", "t", "a", "t", "e", " ", "4", "\n", "}",
      "\n">>

\* the two variants of the entry
EnabledPath == PathJoin(ExpandPath(Defaults.config_dir), Defaults.name)

DisabledPath == EnabledPath \o disabled_suffix

\* the files of the configuration directory before the first invocation:
\* no entry, or one variant of it
InitFiles ==
    { <<>>,
      (EnabledPath :> Canonical), (DisabledPath :> Canonical),
      (EnabledPath :> HandWritten), (DisabledPath :> HandWritten),
      (EnabledPath :> <<>>) }

NoResult ==
    [changed |-> FALSE, config_file |-> <<>>, config_content |-> <<>>,
     enabled_state |-> TRUE, backup_file |-> <<>>]

VARIABLES
    files,      \* path -> content of the regular files
    dirs,       \* the directories that exist
    clock,      \* whole seconds of datetime.now()
    runs,       \* number of invocations so far
    optIdx,     \* the option set of the last invocation (0: none yet)
    checkMode,  \* module.check_mode of the last invocation
    preFiles,   \* files before the last invocation
    preDirs,    \* dirs before the last invocation
    result,     \* self.result of the last invocation
    ops,        \* the calls the last invocation made
    warnings,   \* number of module.warn calls of the last invocation
    outcome,    \* how the last invocation ended
    rerun,      \* the last invocation repeated the options of the one
                \* before it, which had completed outside check mode
    params,     \* module.params of the last invocation
    procs       \* the invocations that run side by side, each with its
                \* position in apply and its manager

vars ==
    <<files, dirs, clock, runs, optIdx, checkMode, preFiles, preDirs,
      result, ops, warnings, outcome, rerun, params, procs>>

\* the host before the first invocation, the entry being one of entries
InitHost(entries) ==
    /\ files \in entries
    /\ dirs \in {{}, {ExpandPath(Defaults.config_dir)}}
    /\ (dirs = {} => files = <<>>)
    /\ clock = 0
    /\ runs = 0
    /\ optIdx = 0
    /\ checkMode = FALSE
    /\ preFiles = files
    /\ preDirs = dirs
    /\ result = NoResult
    /\ ops = <<>>
    /\ warnings = 0
    /\ outcome = "none"
    /\ rerun = FALSE

\* the state before the first invocation, the entry being one of entries
InitFrom(entries) ==
    InitHost(entries) /\ params = Defaults /\ procs = <<>>

Init == InitFrom(InitFiles)

\* both variants side by side, as another writer can leave them
DualFiles == { (EnabledPath :> Canonical) @@ (DisabledPath :> HandWritten) }

InitDual == InitFrom(InitFiles \cup DualFiles)

\* the invocation with option set i that ended as c becomes the last one
Finished(c, i, check) ==
    /\ files' = c.files
    /\ dirs' = c.dirs
    /\ result' = c.result
    /\ ops' = c.ops
    /\ warnings' = c.warnings
    /\ outcome' = c.outcome
    /\ rerun' = (optIdx = i /\ outcome = "ok" /\ ~checkMode)
    /\ runs' = runs + 1
    /\ optIdx' = i
    /\ checkMode' = check
    /\ preFiles' = files
    /\ preDirs' = dirs
    /\ UNCHANGED <<clock, procs>>

\* one run of main() with logrotate installed
Reconcile(i, check, e) ==
    /\ runs < MaxRuns
    /\ Finished(Main(files, dirs, OptionSeq[i], check, e, clock), i, check)
    /\ params' = OptionSeq[i]

\* main() without logrotate as it would be if the manager were constructed
\* before the binary is looked for
MainWithoutLogrotate_Constructs(i, check) ==
    /\ runs < MaxRuns
    /\ Finished(Ended(Construct(files, dirs, OptionSeq[i]), "no_binary"),
                i, check)
    /\ params' = OptionSeq[i]

\* one run of main() on a host without logrotate: fail_json before the
\* manager is constructed
MainWithoutLogrotate(i, check) ==
    /\ runs < MaxRuns
    /\ outcome' = "no_binary"
    /\ result' = NoResult
    /\ ops' = <<>>
    /\ warnings' = 0
    /\ rerun' = FALSE
    /\ runs' = runs + 1
    /\ optIdx' = i
    /\ checkMode' = check
    /\ preFiles' = files
    /\ preDirs' = dirs
    /\ params' = OptionSeq[i]
    /\ UNCHANGED <<files, dirs, clock, procs>>

\* a second passes
Tick ==
    /\ clock < MaxClock
    /\ runs < MaxRuns
    /\ clock' = clock + 1
    /\ UNCHANGED <<files, dirs, runs, optIdx, checkMode, preFiles, preDirs,
                   result, ops, warnings, outcome, rerun, params, procs>>

Next ==
    \/ \E i \in 1..Len(OptionSeq), check \in BOOLEAN, e \in Envs :
           Reconcile(i, check, e)
    \/ \E i \in 1..Len(OptionSeq), check \in BOOLEAN :
           MainWithoutLogrotate(i, check)
    \/ Tick

Spec == Init /\ [][Next]_vars

\* the same invocations, started also from an entry with both variants
SpecDual == InitDual /\ [][Next]_vars

\* the parameters of the last invocation
LastParams == OptionSeq[optIdx]

\* the last invocation ran apply to its end
Completed == outcome = "ok"


\* ------------------------------------------------------------------------
\* Invocations over a range of option sets
\* ------------------------------------------------------------------------

\* values given for size, minsize and maxsize
SizeValues ==
    { <<"1", "0", "0">>, <<"1", "0", "0", "k">>, <<"1", "0", "0", "M">>,
        <<"1", "0", "0", "G">>, <<"1", "0", "0", "m">>, <<"1", "0", "0",
        "K">>,
      <<"1", "g">>, <<"1", "0", "0", "k", "b">>, <<"M", "1", "0", "0">>,
          <<"1", ".", "5", "G">>, <<"a", "b", "c">>,
      <<"1", "0", "0", " ", "M", "B">>, <<"1", "0", "0", "\n">>, <<"k">> }

\* an entry for PathA with the defaults of the argument_spec
BaseOptions == [Defaults EXCEPT !.paths = <<PathA>>]

\* option sets that leave the defaults in one respect
Deviations ==
    {BaseOptions,
     [BaseOptions EXCEPT !.size = <<"1", "0", "0", "M">>, !.maxsize = <<"1",
         "G">>],
     [BaseOptions EXCEPT !.ifempty = TRUE],
     [BaseOptions EXCEPT !.delaycompress = TRUE, !.nodelaycompress = TRUE],
     [BaseOptions EXCEPT !.olddir = <<"/", "v", "a", "r", "/", "o", "l",
         "d">>, !.noolddir = TRUE],
     [BaseOptions EXCEPT !.shredcycles = 0],
     [BaseOptions EXCEPT !.start = -1]}
    \cup {[BaseOptions EXCEPT !.su = v] :
              v \in {<<"r", "o", "o", "t">>, <<"r", "o", "o", "t", " ", "a",
                  "d", "m">>, <<"a", " ", "b", " ", "c">>}}
    \cup {[BaseOptions EXCEPT !.size = v] : v \in SizeValues}
    \cup {[BaseOptions EXCEPT !.minsize = v] : v \in SizeValues}
    \cup {[BaseOptions EXCEPT !.maxsize = v] : v \in SizeValues}

\* the option sets given to exercise _validate_parameters
ValidationInputs ==
    {[d EXCEPT !.copy = f.copy, !.copytruncate = f.copytruncate,
               !.renamecopy = f.renamecopy] :
         d \in Deviations,
         f \in [copy : BOOLEAN, copytruncate : BOOLEAN, renamecopy : BOOLEAN]}
    \cup {[d EXCEPT !.state = "absent"] : d \in Deviations}

\* an entry with every directive of the renderer switched on
FullOptions ==
    [BaseOptions EXCEPT
        !.paths = <<PathA, <<"~", "/", "b", ".", "l", "o", "g">>>>,
        !.minsize = <<"1", "0", "0", "k">>, !.start = 1,
        !.compression_method = method.zstd, !.compressoptions = <<"-", "9">>,
        !.delaycompress = TRUE, !.shred = TRUE, !.shredcycles = 3,
        !.create = <<"0", "6", "4", "0", " ", "r", "o", "o", "t", " ", "a",
            "d", "m">>, !.copytruncate = TRUE,
        !.maxage = 30, !.dateext = TRUE, !.dateyesterday = TRUE,
        !.sharedscripts = TRUE, !.su = <<"r", "o", "o", "t", " ", "a", "d",
            "m">>,
        !.olddir = <<"~", "/", "o", "l", "d">>, !.createolddir = TRUE,
        !.extension = <<".", "l", "o", "g">>, !.mail = <<"a", "@", "b", ".",
            "c">>, !.mailfirst = TRUE,
        !.include = <<"$", "H", "O", "M", "E", "/", "i", "n", "c">>,
            !.tabooext = <<<<".", "b", "a", "k">>, <<".", "o", "l", "d">>>>,
        !.syslog = TRUE,
        !.prerotate = ScriptStr(<<"e", "c", "h", "o", " ", "a", "\n", "e",
            "c", "h", "o", " ", "b", "\n">>),
        !.postrotate = ScriptList(<<ScriptCmd, <<"t", "r", "u", "e">>>>),
        !.firstaction = ScriptStr(<<"t", "r", "u", "e">>),
        !.lastaction = ScriptList(<<<<"t", "r", "u", "e">>>>),
        !.preremove = ScriptStr(ScriptCmd)]

\* p with each cadence and each way of giving a size threshold
CadenceVariants(p) ==
    {[p EXCEPT !.rotation_period = period, !.size = sz[1],
               !.maxsize = sz[2]] :
         period \in {kw.daily, kw.weekly, kw.monthly, kw.yearly},
         sz \in {<<<<>>, <<>>>>, <<<<"1", "0", "0", "M">>, <<>>>>, <<<<>>,
             <<"1", "G">>>>}}

\* p with each setting of the compression options
CompressVariants(p) ==
    {[p EXCEPT !.compress = on, !.compression_method = m,
               !.compressoptions = o] :
         on \in BOOLEAN, m \in CompressionMethods, o \in {<<>>, <<"-", "9">>}}

\* p with one of the remaining directives set another way
ToggleVariants(p) ==
    {p,
     [p EXCEPT !.minsize = <<>>],
     [p EXCEPT !.start = 0],
     [p EXCEPT !.delaycompress = FALSE, !.nodelaycompress = TRUE],
     [p EXCEPT !.delaycompress = FALSE],
     [p EXCEPT !.shred = ~p.shred, !.shredcycles = 1],
     [p EXCEPT !.missingok = FALSE],
     [p EXCEPT !.ifempty = TRUE, !.notifempty = FALSE],
     [p EXCEPT !.notifempty = FALSE],
     [p EXCEPT !.copytruncate = FALSE, !.copy = TRUE],
     [p EXCEPT !.copytruncate = FALSE, !.renamecopy = TRUE],
     [p EXCEPT !.copytruncate = ~p.copytruncate],
     [p EXCEPT !.dateext = TRUE, !.dateformat = <<>>],
     [p EXCEPT !.dateext = TRUE, !.dateyesterday = FALSE],
     [p EXCEPT !.olddir = <<>>, !.noolddir = TRUE],
     [p EXCEPT !.olddir = <<"/", "v", "a", "r", "/", "o", "l", "d">>,
         !.createolddir = FALSE],
     [p EXCEPT !.mail = <<"a", "@", "b", ".", "c">>, !.mailfirst = FALSE],
     [p EXCEPT !.mail = <<"a", "@", "b", ".", "c">>, !.mailfirst = FALSE,
               !.maillast = FALSE],
     [p EXCEPT !.tabooext = <<<<" ">>>>],
     [p EXCEPT !.enabled = FALSE],
     [p EXCEPT !.rotate_count = 14, !.delaycompress = TRUE]}

\* p with the script hooks of a set given FullOptions' values and the
\* other hooks unset
ScriptVariants(p) ==
    {[p EXCEPT
        !.prerotate = IF kw.prerotate \in S THEN FullOptions.prerotate
                      ELSE NoScript,
        !.postrotate = IF kw.postrotate \in S THEN FullOptions.postrotate
                       ELSE NoScript,
        !.firstaction = IF kw.firstaction \in S THEN FullOptions.firstaction
                        ELSE NoScript,
        !.lastaction = IF kw.lastaction \in S THEN FullOptions.lastaction
                       ELSE NoScript,
        !.preremove = IF kw.preremove \in S THEN FullOptions.preremove
                      ELSE NoScript] :
         S \in SUBSET {kw.prerotate, kw.postrotate, kw.firstaction,
                       kw.lastaction, kw.preremove}}

\* the option sets given to exercise _generate_config_content
RenderInputs ==
    UNION {CadenceVariants(p) \cup CompressVariants(p) \cup ToggleVariants(p)
               \cup ScriptVariants(p) :
               p \in {BaseOptions, FullOptions}}

\* the state before the first of these invocations: no entry or the
\* enabled one, and parameters from the option sets above
InitOptions ==
    /\ InitHost({<<>>, (EnabledPath :> Canonical)})
    /\ params \in ValidationInputs \cup RenderInputs
    /\ procs = <<>>

\* one run of main() with the parameters at hand
Invoke(check) ==
    /\ runs < MaxRuns
    /\ Finished(Main(files, dirs, params, check, "ok", clock), 0, check)
    /\ UNCHANGED params

\* the invocations of main() over the option sets
SpecOptions == InitOptions /\ [][\E check \in BOOLEAN : Invoke(check)]_vars

\* the last invocation ran apply on the parameters at hand
Invoked == runs > 0 /\ outcome \notin {"none", "no_binary"}

\* ------------------------------------------------------------------------
\* Invocations side by side, one filesystem call at a time
\* ------------------------------------------------------------------------

\* the option sets of the invocations that run side by side: state
\* present, no backup, outside check mode
RaceOptions == {OptionSeq[1], OptionSeq[2], OptionSeq[3], OptionSeq[5]}

\* an invocation before __init__: pc is its position, site the caller of
\* _read_existing_config and suffix the variant that call is at, c the
\* manager (held without the filesystem), existing what line 834 read, and
\* stamp the rank of its last write or rename among those of all
NewProc(p) ==
    [pc |-> "init", site |-> "validate", suffix |-> <<>>, p |-> p,
     c |-> NewManager(<<>>, {}, p), existing |-> Existing(FALSE, <<>>, TRUE),
     stamp |-> 0]

\* the manager of the invocation s over the filesystem as it is now
Sees(s) == [s.c EXCEPT !.files = files, !.dirs = dirs]

\* the invocation i goes on as s, whose manager holds the filesystem its
\* call left; it is done when the manager's outcome is no longer "running"
Goes(i, s) ==
    /\ procs' = [procs EXCEPT ![i] =
                     [s EXCEPT !.c = [s.c EXCEPT !.files = <<>>, !.dirs = {}],
                               !.pc = IF s.c.outcome # "running" THEN "done"
                                      ELSE s.pc]]
    /\ files' = s.c.files
    /\ dirs' = s.c.dirs
    /\ UNCHANGED <<clock, runs, optIdx, checkMode, preFiles, preDirs, result,
                   ops, warnings, outcome, rerun, params>>

\* s with the stamp of the latest write or rename
Stamped(s) ==
    [s EXCEPT !.stamp =
         1 + CHOOSE m \in {procs[j].stamp : j \in DOMAIN procs} :
                 \A j \in DOMAIN procs : procs[j].stamp <= m]

\* lines 865-877 for the value gen of _generate_config_content: the
\* invocation returns, or goes on to remove the variants
AfterGenerate(s, c, gen) ==
    IF gen.failed THEN [s EXCEPT !.c = Ended(c, "fail_json")]
    ELSE IF NeedsUpdate(s.p, s.existing, gen.content, s.existing.enabled_state)
    THEN [s EXCEPT !.c = MarkChanged(Rendered(c, s.p, gen.content)),
                   !.suffix = <<>>, !.pc = "remove_exists"]
    ELSE [s EXCEPT !.c = Returned(Rendered(c, s.p, gen.content), s.p)]

\* line 864: _generate_config_content reads the existing file when no
\* paths are given and renders at once otherwise
EnterGenerate(s, c) ==
    IF ~Truthy(s.p.paths)
    THEN [s EXCEPT !.c = c, !.site = "generate", !.suffix = <<>>,
                   !.pc = "exists"]
    ELSE AfterGenerate(s, c, GenerateFor(s.p, s.p.paths))

\* _read_existing_config returns existing to its caller: lines 531-594 of
\* _validate_parameters, lines 835-843 of apply, or lines 632-646 of
\* _generate_config_content
ReadReturned(s, c, existing) ==
    IF s.site = "validate"
    THEN [s EXCEPT !.c = Validated(c, s.p, existing), !.site = "apply",
                   !.suffix = <<>>, !.pc = "exists"]
    ELSE IF s.site = "apply"
    THEN IF OnlyChangingEnabled(s.p, existing, existing.enabled_state)
         THEN [s EXCEPT !.c = c, !.existing = existing, !.pc = "toggle_old"]
         ELSE EnterGenerate([s EXCEPT !.existing = existing], c)
    ELSE AfterGenerate(s, c, GenerateFromExisting(s.p, existing))

\* __init__ (lines 496-513), then _validate_parameters calls
\* _read_existing_config
Start(i) ==
    /\ procs[i].pc = "init"
    /\ Goes(i, [procs[i] EXCEPT !.c = Construct(files, dirs, procs[i].p),
                                !.pc = "exists"])

\* os.path.exists of line 606 for the variant the read is at: the file is
\* opened next, or the other variant is looked for, or None is returned
ExistsStep(i) ==
    LET s == procs[i]
        c == Sees(procs[i])
    IN  /\ s.pc = "exists"
        /\ IF PathExists(c, VariantPath(c, s.p, s.suffix))
           THEN Goes(i, [s EXCEPT !.c = [c EXCEPT !.result.enabled_state =
                                                      (s.suffix = <<>>)],
                                  !.pc = "read"])
           ELSE IF s.suffix = <<>>
           THEN Goes(i, [s EXCEPT !.c = c, !.suffix = disabled_suffix])
           ELSE Goes(i, ReadReturned(s, c, Existing(FALSE, <<>>,
                                                    c.result.enabled_state)))

\* lines 608-614: the file is opened and read, fail_json when it is no
\* longer there
ReadStep(i) ==
    LET s == procs[i]
        c == Sees(procs[i])
    IN  /\ s.pc = "read"
        /\ IF VariantPath(c, s.p, s.suffix) \in DOMAIN files
           THEN Goes(i, ReadReturned(s, c,
                            Existing(TRUE,
                                     files[VariantPath(c, s.p, s.suffix)],
                                     s.suffix = <<>>)))
           ELSE Goes(i, [s EXCEPT !.c = Ended(c, "fail_json")])

\* line 847: os.path.exists(old_path), then os.path.exists(new_path); the
\* toggle is taken when only old_path exists
ToggleExists(i) ==
    LET s == procs[i]
        c == Sees(procs[i])
    IN  \/ /\ s.pc = "toggle_old"
           /\ IF PathExists(c, GetConfigPath(c, s.p, ~s.p.enabled))
              THEN Goes(i, [s EXCEPT !.c = c, !.pc = "toggle_new"])
              ELSE Goes(i, EnterGenerate(s, c))
        \/ /\ s.pc = "toggle_new"
           /\ IF ~PathExists(c, GetConfigPath(c, s.p, s.p.enabled))
              THEN Goes(i, [s EXCEPT !.c = MarkChanged(c),
                                     !.pc = "toggle_move"])
              ELSE Goes(i, EnterGenerate(s, c))

\* lines 850-851: the rename of old_path to new_path
ToggleMove(i) ==
    LET s == procs[i]
        c == Sees(procs[i])
    IN  /\ s.pc = "toggle_move"
        /\ Goes(i, Stamped(
                       [s EXCEPT
                           !.c = AtomicMove(
                                     BackupConfig(c, s.p,
                                         GetConfigPath(c, s.p, ~s.p.enabled),
                                         clock),
                                     GetConfigPath(c, s.p, ~s.p.enabled),
                                     GetConfigPath(c, s.p, s.p.enabled)),
                           !.pc = "toggle_read"]))

\* lines 853-862: new_path is read back and the result returned
ToggleRead(i) ==
    /\ procs[i].pc = "toggle_read"
    /\ Goes(i, [procs[i] EXCEPT
                   !.c = ToggleReported(Sees(procs[i]), procs[i].p,
                             GetConfigPath(Sees(procs[i]), procs[i].p,
                                           procs[i].p.enabled),
                             procs[i].existing.content)])

\* s after the loop of lines 881-885 is through with the variant it is at
NextVariant(s, c) ==
    IF s.suffix = <<>>
    THEN [s EXCEPT !.c = c, !.suffix = disabled_suffix, !.pc = "remove_exists"]
    ELSE [s EXCEPT !.c = c, !.pc = "write"]

\* line 883: os.path.exists(old_path)
RemoveExists(i) ==
    LET s == procs[i]
        c == Sees(procs[i])
    IN  /\ s.pc = "remove_exists"
        /\ IF PathExists(c, VariantPath(c, s.p, s.suffix))
           THEN Goes(i, [s EXCEPT !.c = c, !.pc = "remove"])
           ELSE Goes(i, NextVariant(s, c))

\* lines 884-885: _backup_config and os.remove(old_path)
Remove(i) ==
    LET s == procs[i]
        c == Sees(procs[i])
    IN  /\ s.pc = "remove"
        /\ Goes(i, NextVariant(s,
                       OsRemove(BackupConfig(c, s.p,
                                    VariantPath(c, s.p, s.suffix), clock),
                                VariantPath(c, s.p, s.suffix))))

\* lines 888-889: the new content is written
Write(i) ==
    /\ procs[i].pc = "write"
    /\ Goes(i, Stamped([procs[i] EXCEPT
                           !.c = WriteConfig(Sees(procs[i]),
                                     procs[i].c.result.config_content, "ok"),
                           !.pc = "chmod"]))

\* line 890: os.chmod, which raises into the fail_json of line 892 when
\* the file is no longer there
Chmod(i) ==
    LET s == procs[i]
        c == Sees(procs[i])
    IN  /\ s.pc = "chmod"
        /\ IF c.result.config_file \in DOMAIN files
           THEN Goes(i, [s EXCEPT !.c = c, !.pc = "test"])
           ELSE Goes(i, [s EXCEPT !.c = Ended(c, "fail_json")])

\* lines 896-905: "logrotate -d" runs and apply returns
Test(i) ==
    /\ procs[i].pc = "test"
    /\ Goes(i, [procs[i] EXCEPT
                   !.c = Returned(TestConfig(Sees(procs[i]), "ok"),
                                  procs[i].p)])

\* one filesystem call of one of the invocations
NextCall ==
    \/ \E i \in DOMAIN procs : Start(i)
    \/ \E i \in DOMAIN procs : ExistsStep(i)
    \/ \E i \in DOMAIN procs : ReadStep(i)
    \/ \E i \in DOMAIN procs : ToggleExists(i)
    \/ \E i \in DOMAIN procs : ToggleMove(i)
    \/ \E i \in DOMAIN procs : ToggleRead(i)
    \/ \E i \in DOMAIN procs : RemoveExists(i)
    \/ \E i \in DOMAIN procs : Remove(i)
    \/ \E i \in DOMAIN procs : Write(i)
    \/ \E i \in DOMAIN procs : Chmod(i)
    \/ \E i \in DOMAIN procs : Test(i)

\* n invocations of main() about to start on a host with no entry or one
\* variant of it
InitCalls(n) ==
    /\ InitHost({<<>>, (EnabledPath :> Canonical),
                 (DisabledPath :> Canonical), (EnabledPath :> HandWritten)})
    /\ params = Defaults
    /\ procs \in [1..n -> {NewProc(p) : p \in RaceOptions}]

\* one invocation, its filesystem calls seen one by one
SpecSolo == InitCalls(1) /\ [][NextCall]_vars

\* two invocations on the same name, their filesystem calls interleaved
SpecRace == InitCalls(2) /\ [][NextCall]_vars

\* ------------------------------------------------------------------------
\* The same options applied again and again
\* ------------------------------------------------------------------------

\* the option sets that are applied repeatedly: state present, no backup
ReapplyOptions == {OptionSeq[i] : i \in 1..6}

\* the host before the first application, and the options of all of them
InitReapply ==
    /\ InitHost(InitFiles)
    /\ params \in ReapplyOptions
    /\ procs = <<>>

\* one more run of main() with the same options, outside check mode
Reapply ==
    /\ runs < MaxReapply
    /\ Finished(Main(files, dirs, params, FALSE, "ok", clock), 0, FALSE)
    /\ UNCHANGED params

\* the count of applications goes up: what a Reapply step, and no other
\* step, does to it
NextApplication == runs < MaxReapply /\ runs' = runs + 1

\* main() is run with the same options as long as applications are left;
\* the fairness is stated on the count of applications, where it is enabled
\* exactly when Reapply is
SpecReapply == InitReapply /\ [][Reapply]_vars /\ WF_runs(NextApplication)
\* ------------------------------------------------------------------------
\* What the properties speak about
\* ------------------------------------------------------------------------

\* the last invocation got as far as apply
Applied == optIdx # 0 /\ outcome \notin {"none", "no_binary"}

\* the last invocation ran apply outside check mode
RealRun == Applied /\ ~checkMode

\* the parameters of the last invocation passed _validate_parameters
PassedValidation == Applied /\ outcome # "validation_error"

\* the names of the calls the last invocation made
OpNames == {ops[k].op : k \in DOMAIN ops}

\* the environment let the last invocation write
NoWriteFault == "write_failed" \notin OpNames

\* the variants of the entry in a filesystem
Variants(fs) == (DOMAIN fs) \cap {EnabledPath, DisabledPath}

\* the files of a filesystem that are no variant of the entry
OtherFiles(fs) == (DOMAIN fs) \ {EnabledPath, DisabledPath}

\* the path of the variant for an enabled flag
PathFor(enabled) == IF enabled THEN EnabledPath ELSE DisabledPath

\* the manager of the last invocation before apply
PreManager == Construct(preFiles, preDirs, LastParams)

\* what the last invocation found on disk
PreExisting == ReadExistingConfig(PreManager, LastParams, TRUE)

\* the text the last invocation renders from its parameters
FreshText == GenerateConfigContent(PreManager, LastParams).content

\* every call of the last invocation created the configuration directory
OnlyConfigDirMade ==
    \A k \in DOMAIN ops :
        ops[k].op = "makedirs" /\ ops[k].src = ExpandPath(LastParams.config_dir)

\* ------------------------------------------------------------------------
\* Properties
\* ------------------------------------------------------------------------

\* C1: idempotence - when an invocation repeats the options of the one
\* before it, which completed outside check mode, it returns changed=false.
C1_Idempotence == (rerun /\ Completed) => ~result.changed

\* C2: deletion - after an invocation with state=absent outside check mode
\* neither variant exists, whichever existed before; changed is true
\* exactly when one existed before, and nothing is touched when none did.
C2_Deletion ==
    (RealRun /\ LastParams.state = "absent") =>
        /\ Completed
        /\ Variants(files) = {}
        /\ result.changed = (Variants(preFiles) # {})
        /\ (Variants(preFiles) = {} => files = preFiles /\ OnlyConfigDirMade)

\* C3: toggle-only update - with exactly one variant on disk, state=present,
\* no paths and an enabled flag that differs from the variant's, the file
\* is renamed to the other variant's path with its content untouched,
\* changed=true, and the result names the new path and the desired flag.
C3_ToggleOnly ==
    (/\ RealRun /\ PassedValidation
     /\ LastParams.state = "present"
     /\ ~Truthy(LastParams.paths)
     /\ Cardinality(Variants(preFiles)) = 1
     /\ PathFor(LastParams.enabled) \notin DOMAIN preFiles) =>
        /\ Completed
        /\ result.changed
        /\ Variants(files) = {PathFor(LastParams.enabled)}
        /\ files[PathFor(LastParams.enabled)] =
               preFiles[PathFor(~LastParams.enabled)]
        /\ "write" \notin OpNames
        /\ result.enabled_state = LastParams.enabled
        /\ result.config_file = PathFor(LastParams.enabled)

\* C4: content update - when an entry exists, state=present and the text
\* rendered from the parameters differs from the existing content, then
\* afterwards the variant for the desired flag holds exactly the rendered
\* text, the other variant does not exist, changed=true and the result
\* names the desired flag and path.
C4_ContentUpdate ==
    (/\ RealRun /\ PassedValidation /\ NoWriteFault
     /\ LastParams.state = "present"
     /\ Variants(preFiles) # {}
     /\ FreshText # PreExisting.content) =>
        /\ Completed
        /\ result.changed
        /\ Variants(files) = {PathFor(LastParams.enabled)}
        /\ files[PathFor(LastParams.enabled)] = FreshText
        /\ result.enabled_state = LastParams.enabled
        /\ result.config_file = PathFor(LastParams.enabled)

\* the last invocation had an existing file to replace, delete or rename
ChangeWanted ==
    /\ Variants(preFiles) # {}
    /\ \/ LastParams.state = "absent"
       \/ LastParams.enabled # PreExisting.enabled_state
       \/ FreshText # PreExisting.content

\* C5: backup - with backup=true, an existing file that is about to be
\* replaced, deleted or renamed is first saved as <name>.backup.<timestamp>
\* in the backup directory, and the invocation then completes with
\* changed=true and the backup path in its result; with backup=false, or
\* with no file, no backup file is created.
C5_Backup ==
    (RealRun /\ PassedValidation /\ NoWriteFault) =>
        IF LastParams.backup /\ ChangeWanted
        THEN /\ Completed
             /\ result.changed
             /\ result.backup_file \in OtherFiles(files)
             /\ files[result.backup_file] = PreExisting.content
        ELSE OtherFiles(files) = OtherFiles(preFiles)

\* C6: creation - when no variant exists and state=present comes with
\* paths, the rendered text is written to the variant for the desired flag,
\* the other variant does not exist afterwards, the written content is the
\* result's content, and changed=true with the desired flag in the result.
C6_Creation ==
    (/\ RealRun /\ PassedValidation /\ NoWriteFault
     /\ LastParams.state = "present"
     /\ Truthy(LastParams.paths)
     /\ Variants(preFiles) = {}) =>
        /\ Completed
        /\ result.changed
        /\ Variants(files) = {PathFor(LastParams.enabled)}
        /\ files[PathFor(LastParams.enabled)] = result.config_content
        /\ result.config_content = Render(LastParams, LastParams.paths)
        /\ result.enabled_state = LastParams.enabled
        /\ result.config_file = PathFor(LastParams.enabled)

\* a new entry was written as a disabled variant
C6_Witness ==
    /\ RealRun /\ Completed
    /\ Variants(preFiles) = {}
    /\ ~LastParams.enabled
    /\ Variants(files) = {DisabledPath}
    /\ "write" \in OpNames

\* C7: no-op on match - when an entry exists, state=present, the desired
\* flag is the existing one and the existing content is the text rendered
\* from the parameters, the invocation returns changed=false and makes no
\* write, delete, rename, chmod, backup or validator call.
C7_NoOpOnMatch ==
    (/\ PassedValidation
     /\ LastParams.state = "present"
     /\ Variants(preFiles) # {}
     /\ LastParams.enabled = PreExisting.enabled_state
     /\ PreExisting.content = FreshText) =>
        /\ Completed
        /\ ~result.changed
        /\ ops = <<>>
        /\ warnings = 0
        /\ files = preFiles
        /\ dirs = preDirs

\* an invocation outside check mode found its entry up to date
C7_Witness ==
    /\ RealRun /\ Completed
    /\ LastParams.state = "present"
    /\ Variants(preFiles) # {}
    /\ LastParams.enabled = PreExisting.enabled_state
    /\ PreExisting.content = FreshText
    /\ ~result.changed

\* C8: check mode changes no file - an invocation in check mode makes no
\* write, rename, delete, chmod, backup move or validator call, so the
\* variants of the entry and the backup files are after it what they were
\* before.
C8_CheckModeFrame ==
    (Applied /\ checkMode) =>
        /\ files = preFiles
        /\ OnlyConfigDirMade
        /\ warnings = 0

\* a check-mode invocation reported a change of an existing entry
C8_Witness ==
    /\ Applied /\ checkMode /\ Completed
    /\ Variants(preFiles) # {}
    /\ result.changed
    /\ files = preFiles

\* the results r and s agree on what a caller previews
SamePreview(r, s) ==
    /\ r.changed = s.changed
    /\ r.config_file = s.config_file
    /\ r.config_content = s.config_content
    /\ r.enabled_state = s.enabled_state

\* the check-mode invocation preview completes with the result r
Previews(preview, r) == preview.outcome = "ok" /\ SamePreview(preview.result, r)

\* C9: check mode previews the real outcome - from the same starting state
\* and with the same options, the check-mode run returns the changed flag,
\* path, content and enabled state of a real run that completes.
C9_CheckModePreview ==
    (RealRun /\ Completed) =>
        Previews(Main(preFiles, preDirs, LastParams, TRUE, "ok", 0), result)

\* a real run completed a toggle
C9_Witness ==
    /\ RealRun /\ Completed
    /\ result.changed
    /\ "atomic_move" \in OpNames

\* C10: validation fails before any change of the filesystem - when the
\* parameters are rejected, the invocation has created, written, renamed
\* or deleted no file and no directory, the configuration directory
\* included.
C10_ValidationBeforeMutation ==
    outcome = "validation_error" =>
        files = preFiles /\ dirs = preDirs /\ ops = <<>>

\* C14: paths is required exactly for a new entry - with state=present and
\* no paths, validation fails when neither variant exists and passes when
\* the entry exists in either form.
C14_PathsRequiredForNewEntry ==
    (/\ Applied
     /\ LastParams.state = "present"
     /\ ~Truthy(LastParams.paths)) =>
        (outcome = "validation_error" <=> Variants(preFiles) = {})

\* the call at position k of the last invocation follows a write
AfterWrite(k) == \E j \in 1..(k - 1) : ops[j].op = "write"

\* C16: advisory validation - "logrotate -d" runs only after a successful
\* write of the content (never in check mode, on a toggle-only rename, on
\* a no-op or on a deletion); when it exits non-zero the invocation only
\* warns, still returns its result with changed=true, and the written file
\* stays in place with the new content.
C16_AdvisoryValidation ==
    Applied =>
        /\ \A k \in DOMAIN ops :
               ops[k].op = "run_command" =>
                   /\ ~checkMode
                   /\ AfterWrite(k)
                   /\ LastParams.state = "present"
                   /\ "atomic_move" \notin OpNames
                   /\ Completed
                   /\ result.changed
                   /\ ops[k].src = result.config_file
                   /\ result.config_file \in DOMAIN files
                   /\ files[result.config_file] = result.config_content
        /\ (warnings > 0 => "run_command" \in OpNames)

\* "logrotate -d" rejected the file an invocation had written
C16_Witness ==
    /\ RealRun /\ Completed
    /\ warnings > 0
    /\ result.changed
    /\ "run_command" \in OpNames
    /\ files[result.config_file] = FreshText

\* C17: without the logrotate binary main() fails before the manager is
\* constructed, for every option set, state=absent and check mode
\* included: no call is made, no file or directory changes and no result
\* is produced.
C17_NoBinary ==
    outcome = "no_binary" =>
        /\ ops = <<>>
        /\ files = preFiles
        /\ dirs = preDirs
        /\ result = NoResult
        /\ warnings = 0

\* main() failed for want of the binary on a host whose configuration
\* directory is missing, with state=absent in check mode
C17_Witness ==
    /\ outcome = "no_binary"
    /\ LastParams.state = "absent"
    /\ checkMode
    /\ preDirs = {}
    /\ dirs = {}

\* both members of one of the six mutual-exclusion pairs are set in p
ExclusivePairSet(p) ==
    \/ Truthy(p.size) /\ Truthy(p.maxsize)
    \/ p.copy /\ p.copytruncate
    \/ p.copy /\ p.renamecopy
    \/ p.ifempty /\ p.notifempty
    \/ p.delaycompress /\ p.nodelaycompress
    \/ Truthy(p.olddir) /\ p.noolddir

\* s is one or more digits, optionally followed by one k, M or G of
\* either case
WellFormedSize(s) ==
    \E n \in 1..Len(s) :
        /\ \A i \in 1..n : s[i] \in {Digits[d] : d \in 1..10}
        /\ \/ n = Len(s)
           \/ n + 1 = Len(s) /\ s[Len(s)] \in {"k", "K", "m", "M", "g", "G"}

\* one of size, minsize and maxsize is given in p and is not well formed
BadSizeGiven(p) ==
    \E v \in {p.size, p.minsize, p.maxsize} : Truthy(v) /\ ~WellFormedSize(v)

\* p violates an invariant of the option set other than the size format
BreaksOtherInvariant(p) ==
    \/ ExclusivePairSet(p)
    \/ p.shredcycles < 1
    \/ p.start < 0
    \/ Truthy(p.su) /\ Len(SplitWs(p.su)) # 2

\* C11: the invariants of the option set are enforced - an invocation
\* whose options have both members of a mutual-exclusion pair set, a
\* malformed size, shredcycles below 1, a negative start or an su that is
\* not two tokens ends with a validation error, with state=present and
\* with state=absent alike.
C11_InvariantsEnforced ==
    (Invoked /\ (BreaksOtherInvariant(params) \/ BadSizeGiven(params))) =>
        outcome = "validation_error"

\* C12: mutual exclusion - with state=present, each of the six pairs
\* size/maxsize, copy/copytruncate, copy/renamecopy, ifempty/notifempty,
\* delaycompress/nodelaycompress and olddir/noolddir ends the invocation
\* with a validation error when both members are set, and no file is
\* written.
C12_ExclusivePairs ==
    (Invoked /\ params.state = "present" /\ ExclusivePairSet(params)) =>
        /\ outcome = "validation_error"
        /\ files = preFiles
        /\ "write" \notin OpNames

\* olddir together with noolddir was rejected outside check mode for an
\* entry that exists
C12_Witness ==
    /\ Invoked /\ ~checkMode
    /\ params.state = "present"
    /\ Truthy(params.olddir) /\ params.noolddir
    /\ ~params.copy
    /\ Variants(preFiles) # {}
    /\ outcome = "validation_error"

\* C13: at most one copy mode - every option set with two or more of
\* copy, copytruncate and renamecopy true is rejected with a validation
\* error.
C13_OneCopyMode ==
    (/\ Invoked
     /\ params.state = "present"
     /\ \/ params.copy /\ params.copytruncate
        \/ params.copy /\ params.renamecopy
        \/ params.copytruncate /\ params.renamecopy) =>
        outcome = "validation_error"

\* C15: size format - with state=present and options that are valid in
\* every other respect, validation fails exactly when one of size, minsize
\* and maxsize is given a value that is not one or more digits optionally
\* followed by a single k, M or G of either case.
C15_SizeFormat ==
    (/\ Invoked
     /\ params.state = "present"
     /\ Truthy(params.paths)
     /\ ~BreaksOtherInvariant(params)) =>
        (outcome = "validation_error" <=> BadSizeGiven(params))

\* the lines of the stanza the last invocation rendered
StanzaLines == SplitOn(result.config_content, "\n")

\* line is the directive w, alone or with a value
IsDirective(line, w) ==
    line = Ind(w) \/ StartsWith(line, Ind(w) \o <<" ">>)

\* the directives in the order claimed for them, one set for each step
DirectiveOrder ==
    << {kw.daily, kw.weekly, kw.monthly, kw.yearly},
       {kw.size, kw.maxsize}, {kw.minsize}, {kw.rotate}, {kw.start},
       {kw.compresscmd, kw.uncompresscmd, kw.compressext, kw.compress,
        kw.compressoptions, kw.nocompress},
       {kw.delaycompress, kw.nodelaycompress},
       {kw.shred, kw.shredcycles},
       {kw.missingok, kw.nomissingok},
       {kw.ifempty, kw.notifempty},
       {kw.create},
       {kw.copy, kw.copytruncate, kw.renamecopy},
       {kw.maxage},
       {kw.dateext, kw.dateyesterday, kw.dateformat},
       {kw.sharedscripts}, {kw.su},
       {kw.olddir, kw.noolddir, kw.createolddir},
       {kw.extension},
       {kw.mail, kw.mailfirst, kw.maillast},
       {kw.include}, {kw.tabooext}, {kw.syslog},
       {kw.prerotate, kw.postrotate, kw.firstaction, kw.lastaction,
        kw.preremove, kw.endscript} >>

\* the step of a line in the claimed order: 0 for a path line, then the
\* opening brace, the directives, the commands of the script hooks with
\* the hooks, and the closing brace; -1 for a line that has no place
LineRank(line) ==
    IF line = <<"{">> THEN 1
    ELSE IF line = <<"}">> THEN Len(DirectiveOrder) + 2
    ELSE IF StartsWith(line, Ind2(<<>>)) THEN Len(DirectiveOrder) + 1
    ELSE IF StartsWith(line, Ind(<<>>))
    THEN IF \E g \in DOMAIN DirectiveOrder :
                \E w \in DirectiveOrder[g] : IsDirective(line, w)
         THEN 1 + CHOOSE g \in DOMAIN DirectiveOrder :
                      \E w \in DirectiveOrder[g] : IsDirective(line, w)
         ELSE -1
    ELSE 0

\* lines, none of them empty, keep the claimed order: no line without a
\* place, no line before one of an earlier step, an opening brace, and the
\* closing brace last
InClaimedOrder(lines) ==
    /\ lines # <<>>
    /\ lines[Len(lines)] = <<"}">>
    /\ \E k \in DOMAIN lines : lines[k] = <<"{">>
    /\ \A k \in DOMAIN lines : LineRank(lines[k]) >= 0
    /\ \A k \in 1..(Len(lines) - 1) :
           LineRank(lines[k]) <= LineRank(lines[k + 1])

\* C18: the rendered line order is fixed - the lines of every stanza come
\* in the order path lines, "{", cadence, size or maxsize, minsize, rotate,
\* start, compression block, delay keyword, shred block, missing-file
\* policy, empty-file policy, create, copy mode, maxage, date-extension
\* block, sharedscripts, su, olddir block, extension, mail block, include,
\* tabooext, syslog, script hooks, "}"; "{" is the first line that is no
\* path and "}" the last line; and for paths, daily, rotate 14, compress
\* and delaycompress the lines are the path, "{", daily, rotate 14,
\* compress, delaycompress, missingok, notifempty, "}".
C18_LineOrder ==
    (Invoked /\ Completed /\ params.state = "present") =>
        \A lines \in {SelectSeq(StanzaLines, Truthy)} :
            /\ InClaimedOrder(lines)
            /\ (params = [BaseOptions EXCEPT !.rotate_count = 14,
                                             !.delaycompress = TRUE] =>
                    lines = << PathA, <<"{">>, Ind(kw.daily),
                               Ind(KeyVal(kw.rotate, <<"1", "4">>)),
                               Ind(kw.compress), Ind(kw.delaycompress),
                               Ind(kw.missingok), Ind(kw.notifempty),
                               <<"}">> >>)

\* the stanza with every directive was written to a new file
C18_Witness ==
    /\ Invoked /\ Completed /\ ~checkMode
    /\ params = FullOptions
    /\ Variants(preFiles) = {}
    /\ EnabledPath \in DOMAIN files
    /\ files[EnabledPath] = result.config_content
    /\ Len(SelectSeq(StanzaLines, Truthy)) > 40

\* the positions in lines of the directive w
LinesOf(lines, w) == {k \in DOMAIN lines : IsDirective(lines[k], w)}

\* the stanza holds the directive d on a line of its own
HoldsLine(d) ==
    Contains(result.config_content, <<"\n">> \o Ind(d) \o <<"\n">>)

\* C19: the cadence keyword is in the stanza exactly when neither size nor
\* maxsize is set, and it is then the period asked for; when size or
\* maxsize is set the stanza holds the line "size <v>" or "maxsize <v>"
\* and no cadence line, whatever the period.
C19_Cadence ==
    (Invoked /\ Completed /\ params.state = "present") =>
        /\ \A lines \in {StanzaLines} :
               /\ (\E w \in DirectiveOrder[1] : LinesOf(lines, w) # {})
                  <=> (~Truthy(params.size) /\ ~Truthy(params.maxsize))
               /\ \A w \in DirectiveOrder[1] : \A k \in LinesOf(lines, w) :
                      lines[k] = Ind(params.rotation_period)
        /\ (Truthy(params.size) =>
                HoldsLine(KeyVal(kw.size, params.size)))
        /\ (~Truthy(params.size) /\ Truthy(params.maxsize) =>
                HoldsLine(KeyVal(kw.maxsize, params.maxsize)))

\* a stanza for a weekly entry with a size holds the size and no cadence
C19_Witness ==
    /\ Invoked /\ Completed
    /\ params.rotation_period = kw.weekly
    /\ Truthy(params.size)
    /\ HoldsLine(KeyVal(kw.size, params.size))
    /\ ~HoldsLine(kw.weekly)


\* C20: the compression block - every stanza holds exactly one of the
\* bare keywords compress and nocompress, compress when compression is
\* enabled; compresscmd, uncompresscmd and compressext are there exactly
\* when compression is enabled with a method other than gzip, and ahead of
\* compress; for zstd and lz4 the uncompress command is the method's binary
\* with -d and not a name made of "un" and the method; compressoptions is
\* there only when compression is enabled.
C20_CompressionBlock ==
    (Invoked /\ Completed /\ params.state = "present") =>
        \A lines \in {StanzaLines} :
        \A at \in {[w \in {kw.compress, kw.nocompress, kw.compresscmd,
                            kw.uncompresscmd, kw.compressext,
                            kw.compressoptions} |-> LinesOf(lines, w)]} :
            /\ Cardinality({k \in DOMAIN lines :
                   lines[k] \in {Ind(kw.compress), Ind(kw.nocompress)}}) = 1
            /\ (\E k \in at[kw.compress] : lines[k] = Ind(kw.compress))
               <=> params.compress
            /\ \A w \in {kw.compresscmd, kw.uncompresscmd, kw.compressext} :
                   /\ Cardinality(at[w]) =
                          IF params.compress
                             /\ params.compression_method # method.gzip
                          THEN 1 ELSE 0
                   /\ \A k \in at[w] : \E j \in at[kw.compress] : k < j
            /\ (params.compress
                /\ params.compression_method \in {method.zstd, method.lz4} =>
                    \E k \in at[kw.uncompresscmd] :
                        /\ lines[k] =
                               Ind(KeyVal(kw.uncompresscmd,
                                          usr_bin \o params.compression_method
                                          \o <<" ", "-", "d">>))
                        /\ ~Contains(lines[k],
                                     <<"u", "n">> \o params.compression_method))
            /\ (at[kw.compressoptions] # {} => params.compress)

\* a stanza compressed with zstd holds its uncompress command with -d
C20_Witness ==
    /\ Invoked /\ Completed
    /\ params.compress
    /\ params.compression_method = method.zstd
    /\ HoldsLine(KeyVal(kw.uncompresscmd, <<"/", "u", "s", "r", "/", "b",
        "i", "n", "/", "z", "s", "t", "d", " ", "-", "d">>))
    /\ \E k \in LinesOf(StanzaLines, kw.compresscmd) :
           \E j \in LinesOf(StanzaLines, kw.compress) : k < j

\* C21: copy-mode rendering - a stanza holds at most one of the keywords
\* copy, renamecopy and copytruncate: copy when copy is true, else
\* renamecopy when renamecopy is true, else copytruncate when copytruncate
\* is true, and none of them when all three are false. This is so for the
\* stanza of every invocation that completes and for the text the renderer
\* gives for every set of the three flags.
C21_CopyMode ==
    (Invoked /\ params.state = "present") =>
        \A text \in {Render(params, params.paths)}
                    \cup (IF Completed THEN {result.config_content} ELSE {}) :
        \A lines \in {SplitOn(text, "\n")} :
        \A at \in {[w \in {kw.copy, kw.renamecopy, kw.copytruncate} |->
                       LinesOf(lines, w)]} :
            /\ Cardinality(at[kw.copy] \cup at[kw.renamecopy]
                           \cup at[kw.copytruncate]) <= 1
            /\ at[kw.copy] # {} <=> params.copy
            /\ at[kw.renamecopy] # {} <=> ~params.copy /\ params.renamecopy
            /\ at[kw.copytruncate] # {} <=>
                   ~params.copy /\ ~params.renamecopy /\ params.copytruncate
            /\ \A k \in at[kw.copy] : lines[k] = Ind(kw.copy)
            /\ \A k \in at[kw.renamecopy] : lines[k] = Ind(kw.renamecopy)
            /\ \A k \in at[kw.copytruncate] : lines[k] = Ind(kw.copytruncate)

\* a stanza was written for copytruncate together with renamecopy and
\* holds renamecopy alone
C21_Witness ==
    /\ Invoked /\ Completed /\ ~checkMode
    /\ params.copytruncate /\ params.renamecopy
    /\ "write" \in OpNames
    /\ HoldsLine(kw.renamecopy)
    /\ ~HoldsLine(kw.copytruncate)
    /\ ~HoldsLine(kw.copy)

\* the commands of a hook value: the elements of a sequence, the lines of
\* a string without its leading and trailing whitespace; none when unset
HookCommands(sc) ==
    IF ~ScriptSet(sc) THEN <<>>
    ELSE IF sc.isList THEN sc.items
    ELSE SplitOn(Strip(sc.text), "\n")

\* C22: script hooks - for each hook that is set among prerotate,
\* postrotate, firstaction, lastaction and preremove the stanza holds the
\* hook keyword once, the hooks in that order, each followed by one
\* indented line for each command, then "endscript" and a blank line, and
\* then by the next hook keyword or the closing brace; a hook that is
\* unset has no line, and there are as many "endscript" lines as hooks
\* set.
C22_ScriptHooks ==
    (Invoked /\ Completed /\ params.state = "present") =>
        \A lines \in {StanzaLines} :
        \A hook \in {<<[name |-> kw.prerotate,
                        cmds |-> HookCommands(params.prerotate)],
                       [name |-> kw.postrotate,
                        cmds |-> HookCommands(params.postrotate)],
                       [name |-> kw.firstaction,
                        cmds |-> HookCommands(params.firstaction)],
                       [name |-> kw.lastaction,
                        cmds |-> HookCommands(params.lastaction)],
                       [name |-> kw.preremove,
                        cmds |-> HookCommands(params.preremove)]>>} :
        \A at \in {[i \in DOMAIN hook |->
                       {k \in DOMAIN lines : lines[k] = Ind(hook[i].name)}]} :
            /\ \A i \in DOMAIN hook :
                   Cardinality(at[i]) = IF hook[i].cmds = <<>> THEN 0 ELSE 1
            /\ \A i \in DOMAIN hook : \A j \in DOMAIN hook :
                   i < j => \A a \in at[i] : \A b \in at[j] : a < b
            /\ \A i \in DOMAIN hook : \A k \in at[i] :
               \A n \in {Len(hook[i].cmds)} :
                   /\ k + n + 3 <= Len(lines)
                   /\ \A m \in 1..n : lines[k + m] = Ind2(hook[i].cmds[m])
                   /\ lines[k + n + 1] = Ind(kw.endscript)
                   /\ lines[k + n + 2] = <<>>
                   /\ \/ k + n + 3 = Len(lines) /\ lines[k + n + 3] = <<"}">>
                      \/ \E j \in DOMAIN hook : i < j /\ k + n + 3 \in at[j]
            /\ Cardinality({k \in DOMAIN lines : lines[k] = Ind(kw.endscript)})
                   = Cardinality({i \in DOMAIN hook : hook[i].cmds # <<>>})

\* a stanza was written with a prerotate string of two commands and a
\* lastaction sequence of one, the three other hooks unset
C22_Witness ==
    /\ Invoked /\ Completed /\ ~checkMode
    /\ params.prerotate = ScriptStr(<<"e", "c", "h", "o", " ", "a", "\n",
        "e", "c", "h", "o", " ", "b", "\n">>)
    /\ params.lastaction = ScriptList(<<<<"t", "r", "u", "e">>>>)
    /\ ~ScriptSet(params.postrotate)
    /\ ~ScriptSet(params.firstaction)
    /\ ~ScriptSet(params.preremove)
    /\ EnabledPath \in DOMAIN files
    /\ files[EnabledPath] = result.config_content
    /\ Contains(result.config_content,
                <<"\n", " ", " ", " ", " ", "p", "r", "e", "r", "o", "t",
                    "a", "t", "e", "\n", " ", " ", " ", " ", " ", " ", " ",
                    " ", "e", "c", "h", "o", " ", "a", "\n", " ", " ", " ",
                    " ", " ", " ", " ", " ", "e", "c", "h", "o", " ", "b",
                    "\n">>
                \o <<" ", " ", " ", " ", "e", "n", "d", "s", "c", "r", "i",
                    "p", "t", "\n", "\n", " ", " ", " ", " ", "l", "a", "s",
                    "t", "a", "c", "t", "i", "o", "n", "\n", " ", " ", " ",
                    " ", " ", " ", " ", " ", "t", "r", "u", "e", "\n">>
                \o <<" ", " ", " ", " ", "e", "n", "d", "s", "c", "r", "i",
                    "p", "t", "\n", "\n", "}">>)

\* C23: path-recovery round trip - the paths recovered from the stanza
\* an invocation rendered from its path list and valid options are that
\* path list: the same paths in the same order, none dropped and no
\* directive or script command added.
C23_PathRoundTrip ==
    (Invoked /\ Completed /\ params.state = "present") =>
        RecoverPaths(result.config_content) = params.paths

\* C24: single-variant invariant - starting with at most one of <name> and
\* <name>.disabled, after any sequence of invocations (state present or
\* absent, either enabled flag, with or without paths or backup, in or
\* out of check mode, completing or failing) at most one of the two
\* exists.
C24_SingleVariant == Cardinality(Variants(files)) <= 1

\* a second invocation wrote the entry as the disabled variant where the
\* enabled one was
C24_Witness ==
    /\ runs > 1
    /\ RealRun /\ Completed
    /\ Variants(preFiles) = {EnabledPath}
    /\ Variants(files) = {DisabledPath}
    /\ "remove" \in OpNames
    /\ "write" \in OpNames

C28_BackupLocation ==
    (RealRun /\ LastParams.backup) =>
        \A f \in OtherFiles(files) \ OtherFiles(preFiles) :
            \E t \in 0..clock :
                f = PathJoin(IF Truthy(LastParams.backup_dir)
                             THEN LastParams.backup_dir
                             ELSE ExpandPath(LastParams.config_dir)
                                  \o <<".", "b", "a", "c", "k", "u", "p">>,
                             LastParams.name \o <<".", "b", "a", "c", "k",
                                 "u", "p", ".">> \o IntToStr(t))

\* C29: the changed flag is faithful - for an invocation outside check
\* mode that completes, changed is true exactly when the entry on disk
\* (which variants exist, and their content) is not what it was before the
\* invocation; with changed=false no file was written, renamed, deleted or
\* backed up.
C29_ChangedFaithful ==
    (RealRun /\ Completed) =>
        /\ result.changed <=>
               [f \in Variants(files) |-> files[f]]
                   # [f \in Variants(preFiles) |-> preFiles[f]]
        /\ (~result.changed => files = preFiles /\ OnlyConfigDirMade)

\* state=absent removed one of two variants and reported the change
C29_Witness ==
    /\ RealRun /\ Completed
    /\ LastParams.state = "absent"
    /\ Variants(preFiles) = {EnabledPath, DisabledPath}
    /\ Variants(files) = {DisabledPath}
    /\ result.changed

\* C26: last writer wins - when two invocations with state=present on the
\* same name, interleaved one filesystem call at a time, both complete
\* without error, the entry on disk is the one of the invocation that
\* wrote last: one variant, at the path for that invocation's enabled
\* flag, holding the content that invocation reports.
C26_LastWriterWins ==
    (\A i \in DOMAIN procs :
         procs[i].pc = "done" /\ procs[i].c.outcome = "ok") =>
        \A w \in DOMAIN procs :
            (/\ procs[w].stamp > 0
             /\ \A j \in DOMAIN procs : procs[j].stamp <= procs[w].stamp) =>
                /\ Variants(files) = {PathFor(procs[w].p.enabled)}
                /\ files[PathFor(procs[w].p.enabled)] =
                       procs[w].c.result.config_content

\* the invocation i rewrites the content of an entry that exists
RewritesEntry(i) ==
    /\ Variants(preFiles) # {}
    /\ procs[i].pc \in {"remove_exists", "remove", "write", "chmod", "test"}

\* the invocation i is a toggle-only update: no paths, and the one variant
\* on disk, which has content, is not the one for the enabled flag asked
\* for
TogglesOnly(i) ==
    /\ ~Truthy(procs[i].p.paths)
    /\ ~procs[i].p.backup
    /\ Variants(preFiles) = {PathFor(~procs[i].p.enabled)}
    /\ preFiles[PathFor(~procs[i].p.enabled)] # <<>>

\* C27: the atomicity gap - a rewrite of the content of an existing entry
\* comes, after its removals and before its write, to a state in which
\* neither <name> nor <name>.disabled exists, whereas at every state of a
\* toggle-only update without backup exactly one of the two exists, and
\* the update is made by one rename.
C27_AtomicityGap ==
    \A i \in DOMAIN procs :
        /\ (RewritesEntry(i) /\ procs[i].pc = "write" =>
                Variants(files) = {})
        /\ (TogglesOnly(i) =>
                /\ Cardinality(Variants(files)) = 1
                /\ procs[i].pc \notin {"remove_exists", "remove", "write",
                                       "chmod", "test"}
                /\ procs[i].pc = "done" =>
                       /\ procs[i].c.outcome = "ok"
                       /\ Variants(files) = {PathFor(procs[i].p.enabled)}
                       /\ files[PathFor(procs[i].p.enabled)] =
                              preFiles[PathFor(~procs[i].p.enabled)])

\* a rewrite of an enabled entry is about to write and no variant exists
C27_Witness ==
    \E i \in DOMAIN procs :
        /\ RewritesEntry(i)
        /\ procs[i].pc = "write"
        /\ Variants(preFiles) = {EnabledPath}
        /\ procs[i].p.enabled
        /\ Variants(files) = {}

====
